---- MODULE Spec2Model ----
(***************************************************************************)
(* Signaling server of talmolab/webRTC-connect                             *)
(* (src/webRTC_external/server.py): the in-memory room registry (ROOMS,    *)
(* PEER_TO_ROOM, ROOM_ADMINS, METRICS), the WebSocket session loop         *)
(* handle_client, the dispatcher handlers it calls and the HTTP endpoints  *)
(* that manage rooms, delete peers and report the metrics.                 *)
(*                                                                         *)
(* Conventions.  A Python dict is a TLA+ function whose DOMAIN is the key  *)
(* set.  An absent or null string field is None; an absent or empty dict   *)
(* field is EmptyDict (the handlers test both with the same truthiness     *)
(* check, or default the absent one to {}).  A JSON array whose order no   *)
(* handler reads (peer_list, peers, tags) is a set.  Of a room's in-memory *)
(* record only "peers" is kept: created_by, token and expires_at are       *)
(* written at server.py:1151 and read nowhere.  Human readable             *)
(* "message" texts of error replies are left out; "type", "code" and       *)
(* "reason" are kept.  Every handler runs to completion as one step: the   *)
(* asyncio loop is single threaded, the persistent store calls (boto3)     *)
(* are synchronous, and a write to a socket is taken to complete without   *)
(* suspending the handler (SpecOrder alone lets a relay handler suspend    *)
(* on its send).  The persistent store is assumed to answer; the           *)
(* connection whose message is being handled is open while it is handled.  *)
(***************************************************************************)
EXTENDS Integers, Sequences, FiniteSets, TLC

VARIABLES
    ROOMS,                   \* server.py:57  room_id -> [peers: peer_id -> peer data]
    PEER_TO_ROOM,            \* server.py:58  peer_id -> room_id
    ROOM_ADMINS,             \* server.py:59  room_id -> admin peer_id
    METRICS,                 \* server.py:62
    rooms_table,             \* server.py:87  persistent Room records
    worker_tokens_table,     \* server.py:107 persistent WorkerToken rows
    room_memberships_table,  \* server.py:108 persistent RoomMembership rows
    conns,                   \* per connection: transport state and handle_client's local peer_id
    session,                 \* history: what each connection's last successful register bound it
                             \* to, and whether it ever registered with a valid worker API key
    now,                     \* wall clock read by time.time() and datetime.utcnow()
    sent,                    \* frames written by the handler that just ran, in order: <<[to, msg]>>
    last,                    \* the frame that handler was called for: [ws, msg]
    inbox,                   \* per connection: frames received and not yet read by handle_client
    read_log,                \* history: per connection, the frames handle_client has read, in order
    inflight,                \* per connection: the sends its handlers are suspended on
    wire,                    \* history: per socket, the frames written to it, in order
    ROOM_INVITES,            \* server.py:111 invite_code -> [room_id, created_by, expires_at]
    http_task,               \* the HTTP request the FastAPI thread is working on, with its locals
    deleted_rooms,           \* history: the rooms a DELETE /api/auth/rooms/{room_id} has removed
    http_response            \* the last HTTP response: [op, user_id, room_id, status, ...]

channel == <<inbox, read_log, inflight, wire>>

http == <<ROOM_INVITES, http_task, deleted_rooms, http_response>>

vars == <<ROOMS, PEER_TO_ROOM, ROOM_ADMINS, METRICS, rooms_table, worker_tokens_table,
          room_memberships_table, conns, session, now, sent, last, channel, http>>

registry == <<ROOMS, PEER_TO_ROOM, ROOM_ADMINS>>

tables == <<rooms_table, worker_tokens_table, room_memberships_table>>

(***************************************************************************)
(* Bounds of the model.                                                    *)
(***************************************************************************)
MaxTime == 1

MaxTotalConnections == 2

MaxTotalMessages == 1

(***************************************************************************)
(* Python values.                                                          *)
(***************************************************************************)
None == "None"

NoTime == 0 - 1

EmptyDict == <<>>

NoKey == <<"", "">>

DictGet(d, k, default) == IF k \in DOMAIN d THEN d[k] ELSE default

DictSet(d, k, v) == [x \in (DOMAIN d) \cup {k} |-> IF x = k THEN v ELSE d[x]]

DictDel(d, k) == [x \in (DOMAIN d) \ {k} |-> d[x]]

(***************************************************************************)
(* The universe of the model: connections, identifiers, credentials.       *)
(***************************************************************************)
ConnOrder == <<"c1", "c2", "c3">>

Conns == {ConnOrder[i] : i \in 1..Len(ConnOrder)}

RoomIds == {"R1", "R2"}

PeerIds == {"p1", "p2"}

\* An API key is the pair <<prefix, rest>> of the string prefix ++ rest;
\* NoKey is the absent (or empty) key.
K1 == <<"slp_", "K1">>

KRevoked == <<"slp_", "Krev">>

KExpiring == <<"slp_", "Kexp">>

\* The key of a worker of room R2.
K2 == <<"slp_", "K2">>

KUnknown == <<"slp_", "Kzzz">>

KNoPrefix == <<"key_", "K1">>

startswith(key, prefix) == key[1] = prefix

\* Session tokens signed by generate_sleap_jwt, with the claims they carry.
IssuedJwts == [jwtA |-> [sub |-> "userA", username |-> "alice"],
               jwtB |-> [sub |-> "userB", username |-> "bob"],
               jwtC |-> [sub |-> "userC", username |-> "carol"]]

\* Cognito ID tokens the user pool has signed.
IssuedIdTokens == [idA |-> [sub |-> "cogA"]]

Invalid == [invalid |-> TRUE]

verify_sleap_jwt(token) == IF token \in DOMAIN IssuedJwts THEN IssuedJwts[token] ELSE Invalid

verify_cognito_token(token) ==
    IF token \in DOMAIN IssuedIdTokens THEN IssuedIdTokens[token] ELSE Invalid

RoomTTLHours == 24

(***************************************************************************)
(* Initial state: an empty registry, no connection, and a persistent store *)
(* holding two rooms (R2 about to expire), their memberships, three worker *)
(* tokens of room R1 (a valid one, a revoked one and one that expires at   *)
(* time 0) and a valid worker token of room R2.                            *)
(***************************************************************************)
InitRooms ==
    [R1 |-> [room_id |-> "R1", created_by |-> "userA", token |-> "pw1",
             otp_secret |-> "OTP1", expires_at |-> RoomTTLHours],
     R2 |-> [room_id |-> "R2", created_by |-> "userB", token |-> "pw2",
             otp_secret |-> "OTP2", expires_at |-> 0]]

InitMemberships ==
    [k \in {<<"userA", "R1">>, <<"userB", "R2">>, <<"userB", "R1">>} |->
        [user_id |-> k[1], room_id |-> k[2],
         role |-> IF k = <<"userB", "R1">> THEN "member" ELSE "owner"]]

InitWorkerTokens ==
    [k \in {K1, K2, KRevoked, KExpiring} |->
        [token_id |-> k, user_id |-> IF k = K2 THEN "userB" ELSE "userA",
         room_id |-> IF k = K2 THEN "R2" ELSE "R1",
         worker_name |-> IF k = K1 THEN "w1" ELSE IF k = K2 THEN "w3" ELSE "w2",
         expires_at |-> IF k = KExpiring THEN 0 ELSE NoTime,
         revoked_at |-> IF k = KRevoked THEN 0 ELSE NoTime]]

NoSession == [room_id |-> None, peer_id |-> None, cred |-> None, worker |-> FALSE]

NoEvent == [ws |-> None, msg |-> [type |-> None]]

Event(ws, msg) == [ws |-> ws, msg |-> msg]

NoTask == [op |-> None]

NoResponse == [op |-> None]

Init ==
    /\ ROOMS = EmptyDict
    /\ PEER_TO_ROOM = EmptyDict
    /\ ROOM_ADMINS = EmptyDict
    /\ METRICS = [total_connections |-> 0, total_messages |-> 0,
                  active_connections |-> 0, rooms_created |-> 0]
    /\ rooms_table = InitRooms
    /\ worker_tokens_table = InitWorkerTokens
    /\ room_memberships_table = InitMemberships
    /\ conns = [c \in Conns |-> [state |-> "idle", peer_id |-> None]]
    /\ session = [c \in Conns |-> NoSession]
    /\ now = 0
    /\ sent = <<>>
    /\ last = NoEvent
    /\ inbox = [c \in Conns |-> <<>>]
    /\ read_log = [c \in Conns |-> <<>>]
    /\ inflight = [c \in Conns |-> {}]
    /\ wire = [c \in Conns |-> <<>>]
    /\ ROOM_INVITES = EmptyDict
    /\ http_task = NoTask
    /\ deleted_rooms = {}
    /\ http_response = NoResponse

(***************************************************************************)
(* Frames.                                                                 *)
(***************************************************************************)
Frame(ws, msg) == [to |-> ws, msg |-> msg]

RegisterError(ws, reason) == <<Frame(ws, [type |-> "error", reason |-> reason])>>

CodeError(ws, code) == <<Frame(ws, [type |-> "error", code |-> code])>>

ActiveConnections(rooms) ==
    LET RECURSIVE Sum(_)
        Sum(S) == IF S = {} THEN 0
                  ELSE LET r == CHOOSE r \in S : TRUE
                       IN Cardinality(DOMAIN rooms[r].peers) + Sum(S \ {r})
    IN Sum(DOMAIN rooms)

(***************************************************************************)
(* handle_register, authentication part (server.py:987-1147).  The result  *)
(* is [err, ...]: err is the reply that ends the handler, or no reply and  *)
(* the resolved room_id, peer_id, metadata and credential path.            *)
(***************************************************************************)
AuthFail(out) == [ok |-> FALSE, out |-> out]

AuthOk(room_id, peer_id, metadata, cred) ==
    [ok |-> TRUE, room_id |-> room_id, peer_id |-> peer_id, metadata |-> metadata,
     cred |-> cred]

\* The room validation with the test of expires_at left out.
RoomValidationWithoutExpiry(ws, m, room_id, peer_id, metadata, cred) ==
    IF room_id \notin DOMAIN rooms_table
    THEN AuthFail(RegisterError(ws, "Room not found"))
    ELSE LET room_data == rooms_table[room_id] IN
         IF /\ m.id_token # None /\ m.api_key = NoKey /\ m.jwt = None
            /\ m.token # room_data.token
         THEN AuthFail(RegisterError(ws, "Invalid token"))
         ELSE AuthOk(room_id, peer_id, metadata, cred)

\* server.py:1133-1147, common to the three paths
RoomValidation(ws, m, room_id, peer_id, metadata, cred) ==
    IF room_id \notin DOMAIN rooms_table
    THEN AuthFail(RegisterError(ws, "Room not found"))
    ELSE LET room_data == rooms_table[room_id] IN
         IF /\ m.id_token # None /\ m.api_key = NoKey /\ m.jwt = None
            /\ m.token # room_data.token
         THEN AuthFail(RegisterError(ws, "Invalid token"))
         ELSE IF now > room_data.expires_at
         THEN AuthFail(RegisterError(ws, "Room expired"))
         ELSE AuthOk(room_id, peer_id, metadata, cred)

\* The tests of server.py:1018-1028 with the one of revoked_at left out.
TokenRefusalWithoutRevocation(token_data) ==
    IF token_data.expires_at # NoTime /\ now > token_data.expires_at
    THEN "Token expired"
    ELSE None

\* server.py:1018-1028: the reason for which a stored token is refused, if any
TokenRefusal(token_data) ==
    IF token_data.revoked_at # NoTime THEN "Token revoked"
    ELSE IF token_data.expires_at # NoTime /\ now > token_data.expires_at
    THEN "Token expired"
    ELSE None

\* An API key path on which a room_id of the message takes precedence over
\* the room of the token.
ApiKeyPathClientRoom(ws, m, hex) ==
    IF m.api_key \notin DOMAIN worker_tokens_table
    THEN AuthFail(RegisterError(ws, "Invalid API key"))
    ELSE LET token_data == worker_tokens_table[m.api_key] IN
         IF TokenRefusal(token_data) # None
         THEN AuthFail(RegisterError(ws, TokenRefusal(token_data)))
         ELSE LET room_id == IF m.room_id # None THEN m.room_id ELSE token_data.room_id
                  peer_id == IF m.peer_id # None THEN m.peer_id
                             ELSE "worker-" \o token_data.worker_name \o "-" \o hex
              IN IF room_id \notin DOMAIN rooms_table
                 THEN AuthFail(RegisterError(ws, "Room not found"))
                 ELSE RoomValidation(ws, m, room_id, peer_id,
                        DictSet(DictSet(m.metadata, "_otp_secret",
                                        rooms_table[room_id].otp_secret),
                                "_worker_name", token_data.worker_name),
                        "api_key")

\* server.py:1007-1052
ApiKeyPath(ws, m, hex) ==
    IF m.api_key \notin DOMAIN worker_tokens_table
    THEN AuthFail(RegisterError(ws, "Invalid API key"))
    ELSE LET token_data == worker_tokens_table[m.api_key] IN
         IF TokenRefusal(token_data) # None
         THEN AuthFail(RegisterError(ws, TokenRefusal(token_data)))
         ELSE LET room_id == token_data.room_id
                  peer_id == IF m.peer_id # None THEN m.peer_id
                             ELSE "worker-" \o token_data.worker_name \o "-" \o hex
              IN IF room_id \notin DOMAIN rooms_table
                 THEN AuthFail(RegisterError(ws, "Room not found"))
                 ELSE RoomValidation(ws, m, room_id, peer_id,
                        DictSet(DictSet(m.metadata, "_otp_secret",
                                        rooms_table[room_id].otp_secret),
                                "_worker_name", token_data.worker_name),
                        "api_key")

\* A session token path that does not look the membership up.
JwtPathWithoutMembership(ws, m, hex) ==
    LET claims == verify_sleap_jwt(m.jwt) IN
    IF claims = Invalid
    THEN AuthFail(RegisterError(ws, "Invalid token: JWTError"))
    ELSE IF m.room_id = None
    THEN AuthFail(RegisterError(ws, "room_id required for JWT auth"))
    ELSE IF m.room_id \notin DOMAIN rooms_table
    THEN AuthFail(RegisterError(ws, "Room not found"))
    ELSE RoomValidation(ws, m, m.room_id,
            IF m.peer_id # None THEN m.peer_id
            ELSE "client-" \o claims.username \o "-" \o hex,
            m.metadata, "jwt")

\* server.py:1057-1095
JwtPath(ws, m, hex) ==
    LET claims == verify_sleap_jwt(m.jwt) IN
    IF claims = Invalid
    THEN AuthFail(RegisterError(ws, "Invalid token: JWTError"))
    ELSE IF m.room_id = None
    THEN AuthFail(RegisterError(ws, "room_id required for JWT auth"))
    ELSE IF <<claims.sub, m.room_id>> \notin DOMAIN room_memberships_table
    THEN AuthFail(RegisterError(ws, "No access to this room"))
    ELSE IF m.room_id \notin DOMAIN rooms_table
    THEN AuthFail(RegisterError(ws, "Room not found"))
    ELSE RoomValidation(ws, m, m.room_id,
            IF m.peer_id # None THEN m.peer_id
            ELSE "client-" \o claims.username \o "-" \o hex,
            m.metadata, "jwt")

\* server.py:1100-1118
LegacyPath(ws, m) ==
    IF m.peer_id = None \/ m.room_id = None \/ m.token = None
    THEN AuthFail(RegisterError(ws, "Missing required fields during registration."))
    ELSE IF verify_cognito_token(m.id_token) = Invalid
    THEN AuthFail(<<Frame(ws, [error |-> "Invalid token"])>>)
    ELSE RoomValidation(ws, m, m.room_id, m.peer_id, m.metadata, "legacy")

Authenticate(ws, m, hex) ==
    IF m.api_key # NoKey /\ startswith(m.api_key, "slp_") THEN ApiKeyPath(ws, m, hex)
    ELSE IF m.jwt # None THEN JwtPath(ws, m, hex)
    ELSE IF m.id_token # None THEN LegacyPath(ws, m)
    ELSE AuthFail(RegisterError(ws,
            "No authentication provided. Use api_key, jwt, or id_token."))

(***************************************************************************)
(* handle_register (server.py:977-1226): the result of one call, as the    *)
(* registry it leaves and the frames it writes.                            *)
(***************************************************************************)
\* A refusal that is counted as a connection.
UnchangedButCounted(out) ==
    [ok |-> FALSE, ROOMS |-> ROOMS, PEER_TO_ROOM |-> PEER_TO_ROOM,
     ROOM_ADMINS |-> ROOM_ADMINS,
     METRICS |-> [METRICS EXCEPT !.total_connections = @ + 1], out |-> out]

Unchanged(out) ==
    [ok |-> FALSE, ROOMS |-> ROOMS, PEER_TO_ROOM |-> PEER_TO_ROOM,
     ROOM_ADMINS |-> ROOM_ADMINS, METRICS |-> METRICS, out |-> out]

\* server.py:1166-1171
PeerData(ws, role, metadata) ==
    [websocket |-> ws, role |-> role, metadata |-> metadata, connected_at |-> now]

\* server.py:1150-1172
JoinRoom(rooms, room_id, peer_id, data) ==
    LET opened == IF room_id \notin DOMAIN rooms
                  THEN DictSet(rooms, room_id, [peers |-> EmptyDict])
                  ELSE rooms
    IN [opened EXCEPT ![room_id].peers = DictSet(@, peer_id, data)]

\* The test of server.py:1177 taken never to find another admin.
AdminConflictNever(room_id, peer_id, is_admin) == FALSE

\* server.py:1175-1188
AdminConflict(room_id, peer_id, is_admin) ==
    /\ is_admin
    /\ DictGet(ROOM_ADMINS, room_id, None) # None
    /\ DictGet(ROOM_ADMINS, room_id, None) # peer_id

\* server.py:1194-1216
RegisteredAuth(rooms, admins, m, room_id, peer_id, role, metadata) ==
    LET peer_list == (DOMAIN rooms[room_id].peers) \ {peer_id}
        response ==
            [type |-> "registered_auth", room_id |-> room_id, token |-> m.token,
             peer_id |-> peer_id, admin_peer_id |-> DictGet(admins, room_id, None),
             peer_list |-> peer_list,
             peer_metadata |-> [pid \in peer_list |-> rooms[room_id].peers[pid].metadata]]
    IN IF role = "worker" /\ DictGet(metadata, "_otp_secret", None) # None
       THEN DictSet(response, "otp_secret", metadata["_otp_secret"])
       ELSE response

handle_register(ws, m, hex) ==
    LET a == Authenticate(ws, m, hex) IN
    IF ~a.ok THEN Unchanged(a.out)
    ELSE
    LET role == IF m.role = None THEN "peer" ELSE m.role
        rooms == JoinRoom(ROOMS, a.room_id, a.peer_id, PeerData(ws, role, a.metadata))
        conflict == AdminConflict(a.room_id, a.peer_id, m.is_admin)
        admins == IF m.is_admin /\ ~conflict
                  THEN DictSet(ROOM_ADMINS, a.room_id, a.peer_id)
                  ELSE ROOM_ADMINS
    IN [ok |-> TRUE, room_id |-> a.room_id, peer_id |-> a.peer_id, cred |-> a.cred,
        ROOMS |-> rooms,
        PEER_TO_ROOM |-> DictSet(PEER_TO_ROOM, a.peer_id, a.room_id),
        ROOM_ADMINS |-> admins,
        METRICS |-> [METRICS EXCEPT !.total_connections = @ + 1,
                                    !.active_connections = ActiveConnections(rooms)],
        out |-> (IF conflict
                 THEN <<Frame(ws, [type |-> "admin_conflict", room_id |-> a.room_id,
                                   current_admin |-> ROOM_ADMINS[a.room_id]])>>
                 ELSE <<>>)
                \o <<Frame(ws, RegisteredAuth(rooms, admins, m, a.room_id, a.peer_id,
                                              role, a.metadata))>>]

(***************************************************************************)
(* cleanup_peer (server.py:1746-1785).                                     *)
(***************************************************************************)
cleanup_peer(peer_id) ==
    IF peer_id \notin DOMAIN PEER_TO_ROOM
    THEN [ROOMS |-> ROOMS, PEER_TO_ROOM |-> PEER_TO_ROOM, ROOM_ADMINS |-> ROOM_ADMINS,
          METRICS |-> METRICS]
    ELSE
    LET room_id == PEER_TO_ROOM[peer_id]
        hasRoom == room_id \in DOMAIN ROOMS
        rooms1 == IF hasRoom /\ peer_id \in DOMAIN ROOMS[room_id].peers
                  THEN [ROOMS EXCEPT ![room_id].peers = DictDel(@, peer_id)]
                  ELSE ROOMS
        admins1 == IF DictGet(ROOM_ADMINS, room_id, None) = peer_id
                   THEN DictDel(ROOM_ADMINS, room_id)
                   ELSE ROOM_ADMINS
        empty == hasRoom /\ DOMAIN rooms1[room_id].peers = {}
        rooms2 == IF empty THEN DictDel(rooms1, room_id) ELSE rooms1
    IN [ROOMS |-> rooms2,
        PEER_TO_ROOM |-> DictDel(PEER_TO_ROOM, peer_id),
        ROOM_ADMINS |-> IF empty THEN DictDel(admins1, room_id) ELSE admins1,
        METRICS |-> [METRICS EXCEPT !.active_connections = ActiveConnections(rooms2)]]

(***************************************************************************)
(* Writes to a peer's socket.  websocket.send raises ConnectionClosed once *)
(* the transport of that connection has closed.                            *)
(***************************************************************************)
\* A socket on which every write succeeds.
SendNeverFails(ws) == FALSE

SendFails(ws) == conns[ws].state # "open"

Reply(out) == [ROOMS |-> ROOMS, METRICS |-> METRICS, out |-> out, raised |-> FALSE]

Counted(out) ==
    [ROOMS |-> ROOMS, METRICS |-> [METRICS EXCEPT !.total_messages = @ + 1], out |-> out,
     raised |-> FALSE]

\* An exception no handler catches: it ends the read loop of handle_client
\* (server.py:1906-1907).
Raised == [ROOMS |-> ROOMS, METRICS |-> METRICS, out |-> <<>>, raised |-> TRUE]

(***************************************************************************)
(* matches_filters (server.py:1265-1305).  A property value is a tagged    *)
(* JSON value: Num(n), Str(s), null (NoValue, which is also what           *)
(* peer_props.get gives for a missing key), or an operator document        *)
(* Ops([op |-> value]).  Python orders two numbers and two strings and     *)
(* raises TypeError for < and > between any other pair of these.           *)
(***************************************************************************)
Num(n) == [t |-> "num", num |-> n]

Str(s) == [t |-> "str", str |-> s]

Ops(d) == [t |-> "dict", ops |-> d]

NoValue == [t |-> "none"]

Unordered(a, b) == ~(a.t = b.t /\ a.t \in {"num", "str"})

\* a < b for two values Python orders; the messages of the model order
\* numbers only.
Less(a, b) == a.num < b.num

\* server.py:1296-1299: a comparison that raises.  The $lte comparison is
\* reached only if the $gte clause did not return False.
PropertyRaises(peer_value, value) ==
    /\ value.t = "dict"
    /\ peer_value # NoValue
    /\ \/ "$gte" \in DOMAIN value.ops /\ Unordered(peer_value, value.ops["$gte"])
       \/ /\ "$gte" \in DOMAIN value.ops => ~Less(peer_value, value.ops["$gte"])
          /\ "$lte" \in DOMAIN value.ops
          /\ Unordered(peer_value, value.ops["$lte"])

PropertyMatches(peer_value, value) ==
    IF value.t = "dict"
    THEN /\ "$gte" \in DOMAIN value.ops =>
                ~(peer_value = NoValue \/ Less(peer_value, value.ops["$gte"]))
         /\ "$lte" \in DOMAIN value.ops =>
                ~(peer_value = NoValue \/ Less(value.ops["$lte"], peer_value))
         /\ "$eq" \in DOMAIN value.ops => peer_value = value.ops["$eq"]
    ELSE peer_value = value

\* matches_filters raises: the role and tag clauses did not return False and
\* a comparison of the property loop raises.  (With several properties in a
\* filter the loop stops at the first clause that fails, in the key order of
\* the document; the filters of the model name one property.)
matches_filters_raises(peer_data, filters) ==
    LET metadata == peer_data.metadata IN
    /\ "role" \in DOMAIN filters => peer_data.role = filters.role
    /\ "tags" \in DOMAIN filters => DictGet(metadata, "tags", {}) \cap filters.tags # {}
    /\ "properties" \in DOMAIN filters
    /\ LET peer_props == DictGet(metadata, "properties", EmptyDict) IN
       \E key \in DOMAIN filters.properties :
           PropertyRaises(DictGet(peer_props, key, NoValue), filters.properties[key])

\* A matcher that takes a peer only for a role the filter declares.
matches_filters_DeclaredRole(peer_data, filters) ==
    "role" \in DOMAIN filters /\ peer_data.role = filters.role

matches_filters(peer_data, filters) ==
    LET metadata == peer_data.metadata IN
    /\ "role" \in DOMAIN filters => peer_data.role = filters.role
    /\ "tags" \in DOMAIN filters => DictGet(metadata, "tags", {}) \cap filters.tags # {}
    /\ "properties" \in DOMAIN filters =>
          LET peer_props == DictGet(metadata, "properties", EmptyDict) IN
          \A key \in DOMAIN filters.properties :
              PropertyMatches(DictGet(peer_props, key, NoValue), filters.properties[key])

(***************************************************************************)
(* handle_discover_peers (server.py:1308-1369).                            *)
(***************************************************************************)
PeerInfo(peer_id, peer_data) ==
    [peer_id |-> peer_id, role |-> peer_data.role, metadata |-> peer_data.metadata,
     connected_at |-> peer_data.connected_at]

handle_discover_peers(ws, m) ==
    IF m.from_peer_id \notin DOMAIN PEER_TO_ROOM THEN Reply(CodeError(ws, "NOT_IN_ROOM"))
    ELSE IF PEER_TO_ROOM[m.from_peer_id] \notin DOMAIN ROOMS
    THEN Reply(CodeError(ws, "ROOM_NOT_FOUND"))
    ELSE IF \E q \in DOMAIN ROOMS[PEER_TO_ROOM[m.from_peer_id]].peers :
                q # m.from_peer_id
                /\ matches_filters_raises(ROOMS[PEER_TO_ROOM[m.from_peer_id]].peers[q], m.filters)
    THEN Raised
    ELSE
    LET room == ROOMS[PEER_TO_ROOM[m.from_peer_id]]
        matching_peers ==
            {PeerInfo(pid, room.peers[pid]) :
                pid \in {q \in DOMAIN room.peers :
                            q # m.from_peer_id /\ matches_filters(room.peers[q], m.filters)}}
    IN Reply(<<Frame(ws, [type |-> "peer_list", to_peer_id |-> m.from_peer_id,
                          peers |-> matching_peers,
                          count |-> Cardinality(matching_peers)])>>)

(***************************************************************************)
(* handle_update_metadata (server.py:1372-1447).                           *)
(***************************************************************************)
\* A merge in which the stored properties override the new ones.
MergeMetadataExistingWins(old, new) ==
    LET tagged == IF "tags" \in DOMAIN new
                  THEN DictSet(new, "tags", DictGet(old, "tags", {}) \cup new.tags)
                  ELSE new
    IN IF "properties" \in DOMAIN new
       THEN LET existing_props == DictGet(old, "properties", EmptyDict)
                new_props == new.properties
            IN DictSet(tagged, "properties",
                       [k \in (DOMAIN existing_props) \cup (DOMAIN new_props) |->
                           IF k \in DOMAIN existing_props THEN existing_props[k]
                           ELSE new_props[k]])
       ELSE tagged

MergeMetadata(old, new) ==
    LET tagged == IF "tags" \in DOMAIN new
                  THEN DictSet(new, "tags", DictGet(old, "tags", {}) \cup new.tags)
                  ELSE new
    IN IF "properties" \in DOMAIN new
       THEN LET existing_props == DictGet(old, "properties", EmptyDict)
                new_props == new.properties
            IN DictSet(tagged, "properties",
                       [k \in (DOMAIN existing_props) \cup (DOMAIN new_props) |->
                           IF k \in DOMAIN new_props THEN new_props[k]
                           ELSE existing_props[k]])
       ELSE tagged

handle_update_metadata(ws, m) ==
    IF m.peer_id = None \/ m.metadata = EmptyDict
    THEN Reply(CodeError(ws, "INVALID_MESSAGE"))
    ELSE IF m.peer_id \notin DOMAIN PEER_TO_ROOM THEN Reply(CodeError(ws, "NOT_IN_ROOM"))
    ELSE
    LET room_id == PEER_TO_ROOM[m.peer_id] IN
    IF room_id \notin DOMAIN ROOMS \/ m.peer_id \notin DOMAIN ROOMS[room_id].peers
    THEN Reply(CodeError(ws, "PEER_NOT_FOUND"))
    ELSE
    LET new_metadata == MergeMetadata(ROOMS[room_id].peers[m.peer_id].metadata, m.metadata)
    IN [ROOMS |-> [ROOMS EXCEPT ![room_id].peers[m.peer_id].metadata = new_metadata],
        METRICS |-> METRICS,
        out |-> <<Frame(ws, [type |-> "metadata_updated", peer_id |-> m.peer_id,
                             metadata |-> new_metadata])>>,
        raised |-> FALSE]

(***************************************************************************)
(* handle_peer_message (server.py:1450-1524).                              *)
(***************************************************************************)
handle_peer_message(ws, m) ==
    IF m.from_peer_id = None \/ m.to_peer_id = None \/ m.payload = EmptyDict
    THEN Reply(CodeError(ws, "INVALID_MESSAGE"))
    ELSE IF m.from_peer_id \notin DOMAIN PEER_TO_ROOM
    THEN Reply(CodeError(ws, "NOT_IN_ROOM"))
    ELSE
    LET room_id == PEER_TO_ROOM[m.from_peer_id] IN
    IF DictGet(PEER_TO_ROOM, m.to_peer_id, None) # room_id
    THEN Reply(CodeError(ws, "PEER_NOT_IN_ROOM"))
    ELSE IF room_id \notin DOMAIN ROOMS THEN Raised
    ELSE IF m.to_peer_id \notin DOMAIN ROOMS[room_id].peers
    THEN Reply(CodeError(ws, "PEER_NOT_FOUND"))
    ELSE
    LET target_websocket == ROOMS[room_id].peers[m.to_peer_id].websocket IN
    IF SendFails(target_websocket) THEN Reply(CodeError(ws, "DELIVERY_FAILED"))
    ELSE Counted(<<Frame(target_websocket,
                         [type |-> "peer_message", from_peer_id |-> m.from_peer_id,
                          to_peer_id |-> m.to_peer_id, payload |-> m.payload])>>)

(***************************************************************************)
(* handle_mesh_connect, handle_mesh_answer, handle_ice_candidate           *)
(* (server.py:1527-1743).  The three share their structure; they differ in *)
(* the payload field, the type of the relayed frame and the replies on a   *)
(* missing target and on a failed write.                                   *)
(***************************************************************************)
MeshField(type) ==
    IF type = "mesh_connect" THEN "offer"
    ELSE IF type = "mesh_answer" THEN "answer" ELSE "candidate"

\* A relay that keeps the type of the frame it received.
MeshRelayedSameType(type) == type

MeshRelayed(type) == IF type = "mesh_connect" THEN "mesh_offer" ELSE type

MeshFrame(type, from_peer_id, value) ==
    DictSet([type |-> MeshRelayed(type), from_peer_id |-> from_peer_id],
            MeshField(type), value)

\* Mesh handlers that answer PEER_NOT_FOUND for a missing target of every
\* type, ice_candidate included.
handle_mesh_MissingAlwaysReported(ws, m) ==
    IF m.from_peer_id = None \/ m.target_peer_id = None \/ m[MeshField(m.type)] = EmptyDict
    THEN Reply(CodeError(ws, "INVALID_MESSAGE"))
    ELSE IF m.from_peer_id \notin DOMAIN PEER_TO_ROOM
    THEN Reply(CodeError(ws, "NOT_IN_ROOM"))
    ELSE
    LET room_id == PEER_TO_ROOM[m.from_peer_id] IN
    IF room_id \notin DOMAIN ROOMS THEN Reply(CodeError(ws, "ROOM_NOT_FOUND"))
    ELSE IF m.target_peer_id \notin DOMAIN ROOMS[room_id].peers
    THEN Reply(CodeError(ws, "PEER_NOT_FOUND"))
    ELSE
    LET target_websocket == ROOMS[room_id].peers[m.target_peer_id].websocket IN
    IF SendFails(target_websocket)
    THEN IF m.type = "ice_candidate" THEN Reply(<<>>)
         ELSE Reply(CodeError(ws, "DELIVERY_FAILED"))
    ELSE Counted(<<Frame(target_websocket,
                         MeshFrame(m.type, m.from_peer_id, m[MeshField(m.type)]))>>)

handle_mesh(ws, m) ==
    IF m.from_peer_id = None \/ m.target_peer_id = None \/ m[MeshField(m.type)] = EmptyDict
    THEN Reply(CodeError(ws, "INVALID_MESSAGE"))
    ELSE IF m.from_peer_id \notin DOMAIN PEER_TO_ROOM
    THEN Reply(CodeError(ws, "NOT_IN_ROOM"))
    ELSE
    LET room_id == PEER_TO_ROOM[m.from_peer_id] IN
    IF room_id \notin DOMAIN ROOMS THEN Reply(CodeError(ws, "ROOM_NOT_FOUND"))
    ELSE IF m.target_peer_id \notin DOMAIN ROOMS[room_id].peers
    THEN IF m.type = "ice_candidate" THEN Reply(<<>>)
         ELSE Reply(CodeError(ws, "PEER_NOT_FOUND"))
    ELSE
    LET target_websocket == ROOMS[room_id].peers[m.target_peer_id].websocket IN
    IF SendFails(target_websocket)
    THEN IF m.type = "ice_candidate" THEN Reply(<<>>)
         ELSE Reply(CodeError(ws, "DELIVERY_FAILED"))
    ELSE Counted(<<Frame(target_websocket,
                         MeshFrame(m.type, m.from_peer_id, m[MeshField(m.type)]))>>)

(***************************************************************************)
(* forward_message (server.py:1229-1262) as called for the legacy offer,   *)
(* answer and candidate frames (server.py:1866-1885): the frame is         *)
(* forwarded verbatim.                                                     *)
(***************************************************************************)
forward_message(sender_pid, target_pid, data) ==
    IF sender_pid \notin DOMAIN PEER_TO_ROOM THEN Reply(<<>>)
    ELSE
    LET room_id == PEER_TO_ROOM[sender_pid] IN
    IF room_id \notin DOMAIN ROOMS THEN Reply(<<>>)
    ELSE IF target_pid \notin DOMAIN ROOMS[room_id].peers THEN Reply(<<>>)
    ELSE
    LET target_websocket == ROOMS[room_id].peers[target_pid].websocket IN
    IF SendFails(target_websocket) THEN Reply(<<>>)
    ELSE Counted(<<Frame(target_websocket, data)>>)

handle_legacy(ws, m) ==
    IF m.sender = None \/ m.target = None THEN Reply(<<>>)
    ELSE forward_message(m.sender, m.target, m)

(***************************************************************************)
(* Messages a client may send.                                             *)
(***************************************************************************)
RegisterMsg(peer_id, role, is_admin, api_key, jwt, id_token, room_id, token) ==
    [type |-> "register", peer_id |-> peer_id, role |-> role, metadata |-> EmptyDict,
     is_admin |-> is_admin, api_key |-> api_key, jwt |-> jwt, id_token |-> id_token,
     room_id |-> room_id, token |-> token]

\* A worker of room R1 with its API key and no peer_id of its own.
WorkerRegisters ==
    {RegisterMsg(None, "worker", FALSE, K1, None, None, None, None)}

\* A user with a session token, member of R1: as admin under a peer_id of
\* its own, or with none.
ClientRegisters ==
    {RegisterMsg(x[1], None, x[2], NoKey, "jwtB", None, "R1", None) :
        x \in {<<"p1", TRUE>>, <<"p2", TRUE>>, <<None, FALSE>>}}

\* A legacy peer with a Cognito ID token and a wrong room password.
LegacyRegisters ==
    {RegisterMsg("p2", None, FALSE, NoKey, None, "idA", "R1", "pw2")}

\* Registers with the revoked key and with the key that expires at time 0:
\* the key alone, and the key beside every other credential of a member.
RejectedKeyRegisters ==
    {RegisterMsg(None, "worker", FALSE, KRevoked, None, None, None, None)}
    \cup {RegisterMsg("p1", None, TRUE, k, "jwtB", "idA", "R1", "pw1") :
            k \in {KRevoked, KExpiring}}

RegisterMsgs ==
    WorkerRegisters \cup ClientRegisters \cup LegacyRegisters \cup RejectedKeyRegisters

Payloads == {EmptyDict, [data |-> "x"]}

DiscoverMsgs == [type : {"discover_peers"}, from_peer_id : PeerIds, filters : {EmptyDict}]

UpdateMsgs ==
    [type : {"update_metadata"}, peer_id : PeerIds,
     metadata : {[properties |-> [status |-> Str("busy")]]}]

PeerMessageMsgs ==
    [type : {"peer_message"}, from_peer_id : PeerIds, to_peer_id : PeerIds,
     payload : Payloads]

\* The offer, answer or candidate of a mesh frame: opaque to the server.
MeshPayloads == {[sdp |-> "v=0"], [sdp |-> "a=1"]}

MeshMsgs ==
    {DictSet([type |-> t, from_peer_id |-> f, target_peer_id |-> g], MeshField(t), v) :
        t \in {"mesh_connect", "mesh_answer", "ice_candidate"}, f \in PeerIds, g \in PeerIds,
        v \in MeshPayloads}

LegacyMsgs ==
    [type : {"offer", "answer", "candidate"}, sender : PeerIds, target : PeerIds,
     sdp : {"v=0"}]

(***************************************************************************)
(* The session layer: websockets.serve and handle_client                   *)
(* (server.py:1811-1912, 1932).  The frames a handler writes stay in sent  *)
(* until the loop hands them to the transports (Drain); the loop runs one  *)
(* handler at a time.                                                      *)
(***************************************************************************)
Quiet == last = NoEvent /\ http_response = NoResponse

\* A connection is accepted and handle_client starts with peer_id = None.
Accept(ws) ==
    /\ Quiet
    /\ UNCHANGED <<channel, http>>
    /\ conns[ws].state = "idle"
    /\ \A i \in 1..Len(ConnOrder) :
          ConnOrder[i] = ws => \A j \in 1..(i - 1) : conns[ConnOrder[j]].state # "idle"
    /\ conns' = [conns EXCEPT ![ws] = [state |-> "open", peer_id |-> None]]
    /\ UNCHANGED <<registry, METRICS, tables, session, now, sent, last>>

\* uuid.uuid4().hex[:4] (server.py:1033, 1085), taken not to repeat a value:
\* the number of registrations so far.
uuid4_hex == ToString(METRICS.total_connections)

\* server.py:1839-1841: a register frame
Register(ws, m) ==
    LET r == handle_register(ws, m, uuid4_hex) IN
    /\ Quiet
    /\ UNCHANGED <<channel, http>>
    /\ conns[ws].state = "open"
    /\ r.ok => METRICS.total_connections < MaxTotalConnections
    /\ ROOMS' = r.ROOMS
    /\ PEER_TO_ROOM' = r.PEER_TO_ROOM
    /\ ROOM_ADMINS' = r.ROOM_ADMINS
    /\ METRICS' = r.METRICS
    /\ conns' = [conns EXCEPT ![ws].peer_id = m.peer_id]
    /\ session' = IF r.ok
                  THEN [session EXCEPT ![ws] =
                            [room_id |-> r.room_id, peer_id |-> r.peer_id, cred |-> r.cred,
                             worker |-> @.worker \/ r.cred = "api_key"]]
                  ELSE session
    /\ sent' = r.out
    /\ last' = Event(ws, m)
    /\ UNCHANGED <<tables, now>>

\* server.py:1844-1885: any other frame; r is the result of its handler.  An
\* exception the handler does not catch ends the loop and runs the finally block.
Dispatch(ws, m, r) ==
    /\ Quiet
    /\ UNCHANGED <<channel, http>>
    /\ conns[ws].state = "open"
    /\ r.METRICS.total_messages <= MaxTotalMessages
    /\ IF r.raised
       THEN LET c == cleanup_peer(conns[ws].peer_id)
            IN /\ IF conns[ws].peer_id # None
                  THEN /\ ROOMS' = c.ROOMS
                       /\ PEER_TO_ROOM' = c.PEER_TO_ROOM
                       /\ ROOM_ADMINS' = c.ROOM_ADMINS
                       /\ METRICS' = c.METRICS
                  ELSE UNCHANGED <<registry, METRICS>>
               /\ conns' = [conns EXCEPT ![ws].state = "done"]
       ELSE /\ ROOMS' = r.ROOMS
            /\ METRICS' = r.METRICS
            /\ UNCHANGED <<PEER_TO_ROOM, ROOM_ADMINS, conns>>
    /\ sent' = r.out
    /\ last' = Event(ws, m)
    /\ UNCHANGED <<tables, session, now>>

DiscoverPeers(ws, m) == Dispatch(ws, m, handle_discover_peers(ws, m))

UpdateMetadata(ws, m) == Dispatch(ws, m, handle_update_metadata(ws, m))

PeerMessage(ws, m) == Dispatch(ws, m, handle_peer_message(ws, m))

Mesh(ws, m) == Dispatch(ws, m, handle_mesh(ws, m))

Legacy(ws, m) == Dispatch(ws, m, handle_legacy(ws, m))

\* The frames of the last handler reach the transports; the response of the
\* last HTTP request is sent.
Drain ==
    /\ ~Quiet
    /\ sent' = <<>>
    /\ last' = NoEvent
    /\ http_response' = NoResponse
    /\ UNCHANGED <<registry, METRICS, tables, conns, session, now, channel, ROOM_INVITES,
                   http_task, deleted_rooms>>

\* The transport of a connection closes (clean close, error or timeout);
\* its handle_client task has not run yet.
ConnectionLost(ws) ==
    /\ Quiet
    /\ UNCHANGED <<channel, http>>
    /\ conns[ws].state = "open"
    /\ conns' = [conns EXCEPT ![ws].state = "closed"]
    /\ UNCHANGED <<registry, METRICS, tables, session, now, sent, last>>

\* server.py:1903-1912: the read loop ends and the finally block runs.
Finally(ws) ==
    /\ Quiet
    /\ UNCHANGED <<channel, http>>
    /\ conns[ws].state = "closed"
    /\ LET r == cleanup_peer(conns[ws].peer_id)
       IN IF conns[ws].peer_id # None
          THEN /\ ROOMS' = r.ROOMS
               /\ PEER_TO_ROOM' = r.PEER_TO_ROOM
               /\ ROOM_ADMINS' = r.ROOM_ADMINS
               /\ METRICS' = r.METRICS
          ELSE UNCHANGED <<registry, METRICS>>
    /\ conns' = [conns EXCEPT ![ws].state = "done"]
    /\ UNCHANGED <<tables, session, now, sent, last>>

Tick ==
    /\ Quiet
    /\ UNCHANGED <<channel, http>>
    /\ now < MaxTime
    /\ now' = now + 1
    /\ UNCHANGED <<registry, METRICS, tables, conns, session, sent, last>>

(***************************************************************************)
(* Spec: registration and the life of a connection, two connections.       *)
(***************************************************************************)
TwoConns == {"c1", "c2"}

Next ==
    \/ \E ws \in TwoConns : Accept(ws)
    \/ \E ws \in TwoConns, m \in RegisterMsgs : Register(ws, m)
    \/ Drain
    \/ \E ws \in TwoConns : ConnectionLost(ws)
    \/ \E ws \in TwoConns : Finally(ws)
    \/ Tick

Spec == Init /\ [][Next]_vars

(***************************************************************************)
(* SpecDispatch: the dispatcher, two connections that register as a        *)
(* worker, a legacy peer or a client of either room and then send          *)
(* discovery, metadata and relay frames.                                   *)
(***************************************************************************)
DispatchRegisters ==
    {RegisterMsg("p1", "worker", FALSE, K1, None, None, None, None),
     RegisterMsg("p2", None, FALSE, NoKey, None, "idA", "R1", "pw1")}
    \cup {RegisterMsg(x[1], None, FALSE, NoKey, "jwtB", None, x[2], None) :
            x \in {<<"p2", "R1">>, <<"p1", "R2">>, <<"p2", "R2">>}}

NextDispatch ==
    \/ \E ws \in TwoConns : Accept(ws)
    \/ \E ws \in TwoConns, m \in DispatchRegisters : Register(ws, m)
    \/ \E ws \in TwoConns, m \in DiscoverMsgs : DiscoverPeers(ws, m)
    \/ \E ws \in TwoConns, m \in UpdateMsgs : UpdateMetadata(ws, m)
    \/ \E ws \in TwoConns, m \in PeerMessageMsgs : PeerMessage(ws, m)
    \/ \E ws \in TwoConns, m \in MeshMsgs : Mesh(ws, m)
    \/ \E ws \in TwoConns, m \in LegacyMsgs : Legacy(ws, m)
    \/ Drain
    \/ \E ws \in TwoConns : ConnectionLost(ws)
    \/ \E ws \in TwoConns : Finally(ws)

SpecDispatch == Init /\ [][NextDispatch]_vars

(***************************************************************************)
(* SpecMetadata: discovery filters and metadata updates in one room.  Two  *)
(* connections register in R1 as a worker that announces a GPU or as a     *)
(* client without metadata, update their metadata and discover each other  *)
(* with filters on role, tags and properties.                              *)
(***************************************************************************)
GpuMetadata == [tags |-> {"gpu"}, properties |-> [gpu_memory |-> Num(8)]]

MetadataRegisters ==
    {[RegisterMsg(x[1], x[2], FALSE, NoKey, "jwtB", None, "R1", None)
        EXCEPT !.metadata = x[3]] :
        x \in {<<"p1", "worker", GpuMetadata>>, <<"p2", "worker", GpuMetadata>>,
               <<"p1", "client", EmptyDict>>, <<"p2", "client", EmptyDict>>}}

\* An update that carries only properties, and one that carries only tags.
MetadataUpdates ==
    [type : {"update_metadata"}, peer_id : PeerIds,
     metadata : {[properties |-> [gpu_memory |-> Num(16)]], [tags |-> {"busy"}]}]

\* Filters on gpu_memory: scalar equality with a number and with null, the
\* three operators, and $gte with a string where peers hold a number.
PropertyFilters ==
    {Num(8), Num(16), NoValue, Ops("$gte" :> Num(16)), Ops("$lte" :> Num(8)),
     Ops("$eq" :> Num(8)), Ops("$gte" :> Str("8gb"))}

MetadataFilters ==
    {EmptyDict, [role |-> "worker"], [tags |-> {"gpu"}], [tags |-> {"busy"}],
     [role |-> "worker", tags |-> {"gpu", "busy"},
      properties |-> [gpu_memory |-> Ops("$gte" :> Num(8) @@ "$lte" :> Num(8))]]}
    \cup {[properties |-> [gpu_memory |-> value]] : value \in PropertyFilters}

MetadataDiscovers ==
    [type : {"discover_peers"}, from_peer_id : PeerIds, filters : MetadataFilters]

NextMetadata ==
    \/ \E ws \in TwoConns : Accept(ws)
    \/ \E ws \in TwoConns, m \in MetadataRegisters : Register(ws, m)
    \/ \E ws \in TwoConns, m \in MetadataDiscovers : DiscoverPeers(ws, m)
    \/ \E ws \in TwoConns, m \in MetadataUpdates : UpdateMetadata(ws, m)
    \/ Drain
    \/ \E ws \in TwoConns : ConnectionLost(ws)
    \/ \E ws \in TwoConns : Finally(ws)

SpecMetadata == Init /\ [][NextMetadata]_vars

(***************************************************************************)
(* SpecCredentials: registration on the three credential paths, with the   *)
(* credentials and rooms that are refused and those that are accepted,     *)
(* while time passes the expiry of room R2.                                *)
(***************************************************************************)
\* Workers: the key of R1 with each role and with a room_id of the client's
\* choice, the key of R2, and keys that are revoked, unknown or malformed.
ApiKeyRegisters ==
    {RegisterMsg("p1", x[1], FALSE, K1, None, None, x[2], None) :
        x \in {<<None, None>>, <<"worker", "R2">>, <<"client", "R2">>}}
    \cup {RegisterMsg("p1", "worker", FALSE, k, None, None, None, None) :
            k \in {K2, KRevoked, KUnknown, KNoPrefix}}

\* Session tokens: a member of R1 and R2, a user who is no member of R2, a
\* token nobody issued, and a register without room_id.
JwtRegisters ==
    {RegisterMsg("p2", None, FALSE, NoKey, x[1], None, x[2], None) :
        x \in {<<"jwtB", "R1">>, <<"jwtB", "R2">>, <<"jwtA", "R2">>, <<"jwtX", "R1">>,
               <<"jwtB", None>>}}

\* Legacy peers: the right and the wrong password, a room that does not
\* exist, an ID token nobody issued, and a register without password.
IdTokenRegisters ==
    {RegisterMsg("p2", None, FALSE, NoKey, None, x[1], x[2], x[3]) :
        x \in {<<"idA", "R1", "pw1">>, <<"idA", "R1", "pw2">>, <<"idA", "R2", "pw2">>,
               <<"idA", "R3", "pw1">>, <<"idX", "R1", "pw1">>, <<"idA", "R1", None>>}}

\* No credential at all.
BareRegisters == {RegisterMsg("p2", None, FALSE, NoKey, None, None, "R1", "pw1")}

CredentialRegisters ==
    ApiKeyRegisters \cup JwtRegisters \cup IdTokenRegisters \cup BareRegisters

NextCredentials ==
    \/ \E ws \in TwoConns : Accept(ws)
    \/ \E ws \in TwoConns, m \in CredentialRegisters : Register(ws, m)
    \/ Drain
    \/ Tick

SpecCredentials == Init /\ [][NextCredentials]_vars

(***************************************************************************)
(* SpecOrder: the relay handlers at the grain of their await.  A frame a   *)
(* client sent waits in its connection's inbox until handle_client reads   *)
(* it (async for, server.py:1831).  The handler looks the target up and    *)
(* calls target_websocket.send, which raises at once on a socket that is   *)
(* no longer open and may otherwise suspend; while it is suspended the     *)
(* handlers of other connections run.  When the send completes the frame   *)
(* is on the target's socket and the handler counts it; when it raises the *)
(* except branch of the handler runs.  handle_client awaits the handler    *)
(* before it reads the next frame of its connection.                       *)
(***************************************************************************)
MaxFrames == 2

OrderRegisters ==
    {RegisterMsg(p, None, FALSE, NoKey, "jwtB", None, "R1", None) : p \in PeerIds}

\* Relay frames under the sender id p1: a peer_message for either peer id
\* and a candidate for p2.
OrderMsgs ==
    [type : {"peer_message"}, from_peer_id : {"p1"}, to_peer_id : PeerIds,
     payload : {[data |-> "x"]}]
    \cup {DictSet([type |-> "ice_candidate", from_peer_id |-> "p1", target_peer_id |-> "p2"],
                  MeshField("ice_candidate"), [sdp |-> "v=0"])}

RECURSIVE FramesReceived(_)
\* The frames that arrived on the first i connections.
FramesReceived(i) ==
    IF i = 0 THEN 0
    ELSE Len(read_log[ConnOrder[i]]) + Len(inbox[ConnOrder[i]]) + FramesReceived(i - 1)

\* A frame arrives on a connection that has sent a register frame.
Receive(ws, m) ==
    /\ Quiet
    /\ UNCHANGED http
    /\ conns[ws].state = "open"
    /\ conns[ws].peer_id # None
    /\ FramesReceived(Len(ConnOrder)) < MaxFrames
    /\ inbox' = [inbox EXCEPT ![ws] = Append(@, m)]
    /\ UNCHANGED <<registry, METRICS, tables, conns, session, now, sent, last,
                   read_log, inflight, wire>>

BusyNever(ws) == FALSE

\* server.py:1831-1885: the loop body awaits its handler
Busy(ws) == inflight[ws] # {}

relay_handler(ws, m) ==
    IF m.type = "peer_message" THEN handle_peer_message(ws, m) ELSE handle_mesh(ws, m)

\* handle_client reads the next frame of the connection and its handler runs
\* up to its send.
Read(ws) ==
    /\ Quiet
    /\ UNCHANGED http
    /\ conns[ws].state = "open"
    /\ ~Busy(ws)
    /\ inbox[ws] # <<>>
    /\ LET m == Head(inbox[ws])
           r == relay_handler(ws, m)
           n == Len(read_log[ws]) + 1
       IN /\ inbox' = [inbox EXCEPT ![ws] = Tail(@)]
          /\ read_log' = [read_log EXCEPT ![ws] = Append(@, m)]
          /\ inflight' = [inflight EXCEPT ![ws] =
                              @ \cup {[frame |-> r.out[i], n |-> n, type |-> m.type] :
                                          i \in 1..Len(r.out)}]
          /\ IF r.raised
             THEN LET c == cleanup_peer(conns[ws].peer_id)
                  IN /\ IF conns[ws].peer_id # None
                        THEN /\ ROOMS' = c.ROOMS
                             /\ PEER_TO_ROOM' = c.PEER_TO_ROOM
                             /\ ROOM_ADMINS' = c.ROOM_ADMINS
                             /\ METRICS' = c.METRICS
                        ELSE UNCHANGED <<registry, METRICS>>
                     /\ conns' = [conns EXCEPT ![ws].state = "done"]
             ELSE UNCHANGED <<registry, METRICS, conns>>
    /\ UNCHANGED <<tables, session, now, sent, last, wire>>

\* The send a handler of the connection is suspended on completes or raises
\* (server.py:1509-1524, 1584-1600, 1659-1675, 1732-1743).
Write(ws) ==
    /\ Quiet
    /\ UNCHANGED http
    /\ \E p \in inflight[ws] :
          IF ~SendFails(p.frame.to)
          THEN /\ wire' = [wire EXCEPT ![p.frame.to] =
                               Append(@, [by |-> ws, n |-> p.n, msg |-> p.frame.msg])]
               /\ METRICS' = IF p.frame.msg.type = "error" THEN METRICS
                             ELSE [METRICS EXCEPT !.total_messages = @ + 1]
               /\ inflight' = [inflight EXCEPT ![ws] = @ \ {p}]
          ELSE /\ inflight' = [inflight EXCEPT ![ws] =
                                   (@ \ {p}) \cup
                                   IF p.frame.msg.type = "error" \/ p.type = "ice_candidate"
                                   THEN {}
                                   ELSE {[frame |-> CodeError(ws, "DELIVERY_FAILED")[1],
                                          n |-> p.n, type |-> p.type]}]
               /\ UNCHANGED <<wire, METRICS>>
    /\ UNCHANGED <<registry, tables, conns, session, now, sent, last, inbox, read_log>>

NextOrder ==
    \/ \E ws \in TwoConns : Accept(ws)
    \/ \E ws \in TwoConns, m \in OrderRegisters : Register(ws, m)
    \/ Drain
    \/ \E ws \in TwoConns, m \in OrderMsgs : Receive(ws, m)
    \/ \E ws \in TwoConns : Read(ws)
    \/ \E ws \in TwoConns : Write(ws)
    \/ \E ws \in TwoConns : ConnectionLost(ws)

SpecOrder == Init /\ [][NextOrder]_vars

(***************************************************************************)
(* The room management endpoints of the FastAPI application                *)
(* (server.py:380-749).  uvicorn runs them on one event loop in a thread   *)
(* of its own (server.py:1915-1918, 1939): an endpoint has no await, so    *)
(* the requests run one after the other, while the WebSocket handlers run  *)
(* in the main thread and read the same store.  Every call that changes    *)
(* the persistent store is a step of its own: a request that makes several *)
(* is in http_task between them.                                           *)
(***************************************************************************)
MaxRoomsCreated == 1

InviteTTLHours == 1

TokenTTLDays == 7

Users == {IssuedJwts[t].sub : t \in DOMAIN IssuedJwts}

\* get_user_from_auth_header (server.py:234-247) with "Bearer " ++ token
Callers == (DOMAIN IssuedJwts) \cup {"jwtX"}

Idle == http_task = NoTask

Response(op, user_id, room_id, status) ==
    [op |-> op, user_id |-> user_id, room_id |-> room_id, status |-> status]

\* A request whose session token does not verify: 401 from verify_sleap_jwt.
Unauthorized(op, jwt) ==
    /\ Quiet
    /\ Idle
    /\ verify_sleap_jwt(jwt) = Invalid
    /\ http_response' = Response(op, None, None, 401)
    /\ UNCHANGED <<registry, METRICS, tables, conns, session, now, sent, last, channel,
                   ROOM_INVITES, http_task, deleted_rooms>>

\* str(uuid.uuid4())[:8] (server.py:650), taken not to repeat a value: the
\* number of rooms created so far.
new_room_id == "N" \o ToString(METRICS.rooms_created)

\* server.py:634-665: POST /api/auth/rooms up to the Room record
create_authenticated_room(jwt) ==
    LET user_id == verify_sleap_jwt(jwt).sub
        room_id == new_room_id
    IN /\ Quiet
       /\ Idle
       /\ verify_sleap_jwt(jwt) # Invalid
       /\ METRICS.rooms_created < MaxRoomsCreated
       /\ rooms_table' =
              DictSet(rooms_table, room_id,
                      [room_id |-> room_id, created_by |-> user_id,
                       token |-> "pw" \o room_id, otp_secret |-> "OTP" \o room_id,
                       expires_at |-> now + RoomTTLHours])
       /\ http_task' = [op |-> "create_room", user_id |-> user_id, room_id |-> room_id]
       /\ UNCHANGED <<registry, METRICS, worker_tokens_table, room_memberships_table, conns,
                      session, now, sent, last, channel, ROOM_INVITES, deleted_rooms,
                      http_response>>

\* server.py:667-685: the ownership record, the counter and the response
create_room_owner ==
    /\ Quiet
    /\ http_task.op = "create_room"
    /\ room_memberships_table' =
           DictSet(room_memberships_table, <<http_task.user_id, http_task.room_id>>,
                   [user_id |-> http_task.user_id, room_id |-> http_task.room_id,
                    role |-> "owner"])
    /\ METRICS' = [METRICS EXCEPT !.rooms_created = @ + 1]
    /\ http_task' = NoTask
    /\ http_response' = Response("create_room", http_task.user_id, http_task.room_id, 200)
    /\ UNCHANGED <<registry, rooms_table, worker_tokens_table, conns, session, now, sent,
                   last, channel, ROOM_INVITES, deleted_rooms>>

\* secrets.token_urlsafe(6)[:8].upper() (server.py:552), taken not to collide
\* with the code of another invite: invites of one room that expire at the
\* same time hold the same record and are one code.
new_invite_code(room_id, expires_at) == room_id \o "-" \o ToString(expires_at)

\* server.py:536-565: POST /api/auth/rooms/{room_id}/invite
create_room_invite(jwt, room_id) ==
    LET user_id == verify_sleap_jwt(jwt).sub
        key == <<user_id, room_id>>
        expires_at == now + InviteTTLHours
    IN /\ Quiet
       /\ Idle
       /\ verify_sleap_jwt(jwt) # Invalid
       /\ IF key \notin DOMAIN room_memberships_table
             \/ room_memberships_table[key].role # "owner"
          THEN /\ http_response' = Response("create_invite", user_id, room_id, 403)
               /\ UNCHANGED ROOM_INVITES
          ELSE /\ ROOM_INVITES' =
                      DictSet(ROOM_INVITES, new_invite_code(room_id, expires_at),
                              [room_id |-> room_id, created_by |-> user_id,
                               expires_at |-> expires_at])
               /\ http_response' = Response("create_invite", user_id, room_id, 200)
       /\ UNCHANGED <<registry, METRICS, tables, conns, session, now, sent, last, channel,
                      http_task, deleted_rooms>>

AlreadyMemberNever(user_id, room_id) == FALSE

\* server.py:599-603: the caller has a membership of the room already
AlreadyMember(user_id, room_id) == <<user_id, room_id>> \in DOMAIN room_memberships_table

\* server.py:576-620: POST /api/auth/rooms/join
join_room(jwt, invite_code) ==
    LET user_id == verify_sleap_jwt(jwt).sub IN
    /\ Quiet
    /\ Idle
    /\ verify_sleap_jwt(jwt) # Invalid
    /\ IF invite_code \notin DOMAIN ROOM_INVITES
       THEN /\ http_response' = Response("join_room", user_id, None, 400)
            /\ UNCHANGED <<ROOM_INVITES, room_memberships_table>>
       ELSE LET invite == ROOM_INVITES[invite_code]
                room_id == invite.room_id
            IN IF now > invite.expires_at
               THEN /\ ROOM_INVITES' = DictDel(ROOM_INVITES, invite_code)
                    /\ http_response' = Response("join_room", user_id, None, 400)
                    /\ UNCHANGED room_memberships_table
               ELSE /\ room_memberships_table' =
                           IF AlreadyMember(user_id, room_id) THEN room_memberships_table
                           ELSE DictSet(room_memberships_table, <<user_id, room_id>>,
                                        [user_id |-> user_id, room_id |-> room_id,
                                         role |-> "member"])
                    /\ http_response' = Response("join_room", user_id, room_id, 200)
                    /\ UNCHANGED ROOM_INVITES
    /\ UNCHANGED <<registry, METRICS, rooms_table, worker_tokens_table, conns, session, now,
                   sent, last, channel, http_task, deleted_rooms>>

\* generate_api_key (server.py:250-259), taken not to repeat a value: one
\* new key for each room.
new_api_key(room_id) == <<"slp_", room_id>>

\* server.py:383-433: POST /api/auth/token
create_worker_token(jwt, room_id) ==
    LET user_id == verify_sleap_jwt(jwt).sub
        token_id == new_api_key(room_id)
    IN /\ Quiet
       /\ Idle
       /\ verify_sleap_jwt(jwt) # Invalid
       /\ token_id \notin DOMAIN worker_tokens_table
       /\ IF <<user_id, room_id>> \notin DOMAIN room_memberships_table
          THEN /\ http_response' = Response("create_token", user_id, room_id, 403)
               /\ UNCHANGED worker_tokens_table
          ELSE /\ worker_tokens_table' =
                      DictSet(worker_tokens_table, token_id,
                              [token_id |-> token_id, user_id |-> user_id,
                               room_id |-> room_id, worker_name |-> "w9",
                               expires_at |-> now + TokenTTLDays * 24,
                               revoked_at |-> NoTime])
               /\ http_response' = Response("create_token", user_id, room_id, 200)
       /\ UNCHANGED <<registry, METRICS, rooms_table, room_memberships_table, conns, session,
                      now, sent, last, channel, ROOM_INVITES, http_task, deleted_rooms>>

WithoutTokensKeepsAll(room_id) == worker_tokens_table

\* server.py:717-727: the rows of room_memberships_table without those of the room
WithoutMemberships(room_id) ==
    [k \in {x \in DOMAIN room_memberships_table : x[2] # room_id} |->
        room_memberships_table[k]]

\* server.py:729-737: the rows of worker_tokens_table without those of the room
WithoutTokens(room_id) ==
    [k \in {x \in DOMAIN worker_tokens_table : worker_tokens_table[x].room_id # room_id} |->
        worker_tokens_table[k]]

\* server.py:693-727: DELETE /api/auth/rooms/{room_id} up to the memberships
delete_room(jwt, room_id) ==
    LET user_id == verify_sleap_jwt(jwt).sub
        key == <<user_id, room_id>>
    IN /\ Quiet
       /\ Idle
       /\ verify_sleap_jwt(jwt) # Invalid
       /\ IF key \notin DOMAIN room_memberships_table
          THEN /\ http_response' = Response("delete_room", user_id, room_id, 404)
               /\ UNCHANGED <<room_memberships_table, http_task>>
          ELSE IF room_memberships_table[key].role # "owner"
          THEN /\ http_response' = Response("delete_room", user_id, room_id, 403)
               /\ UNCHANGED <<room_memberships_table, http_task>>
          ELSE /\ room_memberships_table' = WithoutMemberships(room_id)
               /\ http_task' = [op |-> "delete_room", user_id |-> user_id,
                                room_id |-> room_id, step |-> "tokens"]
               /\ UNCHANGED http_response
       /\ UNCHANGED <<registry, METRICS, rooms_table, worker_tokens_table, conns, session, now,
                      sent, last, channel, ROOM_INVITES, deleted_rooms>>

\* server.py:729-737: the worker tokens of the room
delete_room_tokens ==
    /\ Quiet
    /\ http_task.op = "delete_room"
    /\ http_task.step = "tokens"
    /\ worker_tokens_table' = WithoutTokens(http_task.room_id)
    /\ http_task' = [http_task EXCEPT !.step = "room"]
    /\ UNCHANGED <<registry, METRICS, rooms_table, room_memberships_table, conns, session,
                   now, sent, last, channel, ROOM_INVITES, deleted_rooms, http_response>>

WithoutRoomKeepsRecord(room_id) == rooms_table

\* server.py:740: rooms_table without the Room record
WithoutRoom(room_id) == DictDel(rooms_table, room_id)

\* server.py:739-743: the Room record and the response
delete_room_record ==
    /\ Quiet
    /\ http_task.op = "delete_room"
    /\ http_task.step = "room"
    /\ rooms_table' = WithoutRoom(http_task.room_id)
    /\ deleted_rooms' = deleted_rooms \cup {http_task.room_id}
    /\ http_task' = NoTask
    /\ http_response' = Response("delete_room", http_task.user_id, http_task.room_id, 200)
    /\ UNCHANGED <<registry, METRICS, worker_tokens_table, room_memberships_table, conns,
                   session, now, sent, last, channel, ROOM_INVITES>>

(***************************************************************************)
(* The endpoints of the FastAPI application that work on the registry      *)
(* (server.py:752-866, 952-974), in the thread of the FastAPI application  *)
(* while the WebSocket handlers run in the main thread.                    *)
(***************************************************************************)
\* server.py:756-807: POST /delete-peer.  The Cognito user of the peer is
\* deleted or not; either way the endpoint goes on.
delete_peer(peer_id) ==
    LET room_id == DictGet(PEER_TO_ROOM, peer_id, None) IN
    /\ Quiet
    /\ Idle
    /\ IF room_id = None \/ room_id \notin DOMAIN ROOMS
       THEN UNCHANGED <<ROOMS, PEER_TO_ROOM, rooms_table>>
       ELSE LET rooms1 == [ROOMS EXCEPT ![room_id].peers = DictDel(@, peer_id)]
                empty == DOMAIN rooms1[room_id].peers = {}
            IN /\ PEER_TO_ROOM' = DictDel(PEER_TO_ROOM, peer_id)
               /\ ROOMS' = IF empty THEN DictDel(rooms1, room_id) ELSE rooms1
               /\ rooms_table' = IF empty THEN DictDel(rooms_table, room_id) ELSE rooms_table
    /\ http_response' = Response("delete_peer", None, room_id, 200)
    /\ UNCHANGED <<ROOM_ADMINS, METRICS, worker_tokens_table, room_memberships_table, conns,
                   session, now, sent, last, channel, ROOM_INVITES, http_task, deleted_rooms>>

\* server.py:810-866: POST /delete-peers-and-room with a room_id, or with a
\* peer_id that PEER_TO_ROOM resolves.  cognito_deleted is the set of peers
\* of the room whose admin_delete_user call does not raise: only those leave
\* PEER_TO_ROOM (server.py:840-854).
delete_peer_and_room(room_id, peer_id, cognito_deleted) ==
    LET rid == IF room_id # None THEN room_id ELSE DictGet(PEER_TO_ROOM, peer_id, None) IN
    /\ Quiet
    /\ Idle
    /\ IF rid = None \/ rid \notin DOMAIN ROOMS
       THEN /\ cognito_deleted = {}
            /\ UNCHANGED <<ROOMS, PEER_TO_ROOM, rooms_table>>
       ELSE LET peer_ids == DOMAIN ROOMS[rid].peers
                empty == peer_ids = {}
            IN /\ cognito_deleted \subseteq peer_ids
               /\ PEER_TO_ROOM' =
                      [p \in (DOMAIN PEER_TO_ROOM) \ cognito_deleted |-> PEER_TO_ROOM[p]]
               /\ ROOMS' = IF empty THEN DictDel(ROOMS, rid) ELSE ROOMS
               /\ rooms_table' = IF empty THEN DictDel(rooms_table, rid) ELSE rooms_table
    /\ http_response' = Response("delete_peers_and_room", None, rid, 200)
    /\ UNCHANGED <<ROOM_ADMINS, METRICS, worker_tokens_table, room_memberships_table, conns,
                   session, now, sent, last, channel, ROOM_INVITES, http_task, deleted_rooms>>

\* server.py:955-957: GET /metrics, the counts of rooms and of peers
get_metrics ==
    /\ Quiet
    /\ Idle
    /\ http_task' = [op |-> "get_metrics", total_rooms |-> Cardinality(DOMAIN ROOMS),
                     total_peers |-> ActiveConnections(ROOMS)]
    /\ UNCHANGED <<registry, METRICS, tables, conns, session, now, sent, last, channel,
                   ROOM_INVITES, deleted_rooms, http_response>>

\* server.py:959-964: the number of registry entries with the role
PeersByRole(rooms) ==
    LET names == UNION {DOMAIN rooms[r].peers : r \in DOMAIN rooms}
        entries == {e \in (DOMAIN rooms) \X names : e[2] \in DOMAIN rooms[e[1]].peers}
        roles == {rooms[e[1]].peers[e[2]].role : e \in entries}
    IN [role \in roles |->
            Cardinality({e \in entries : rooms[e[1]].peers[e[2]].role = role})]

\* server.py:959-974: the counts by role and the response
get_metrics_by_role ==
    /\ Quiet
    /\ http_task.op = "get_metrics"
    /\ http_task' = NoTask
    /\ http_response' =
           [op |-> "get_metrics", status |-> 200, active_rooms |-> http_task.total_rooms,
            active_connections |-> http_task.total_peers,
            peers_by_role |-> PeersByRole(ROOMS),
            total_connections |-> METRICS.total_connections,
            total_messages |-> METRICS.total_messages,
            rooms_created |-> METRICS.rooms_created]
    /\ UNCHANGED <<registry, METRICS, tables, conns, session, now, sent, last, channel,
                   ROOM_INVITES, deleted_rooms>>

(***************************************************************************)
(* SpecRooms: invites, worker tokens and the deletion of room R1 of the    *)
(* initial store, beside a worker that registers with an API key of the    *)
(* room on one WebSocket connection.                                       *)
(***************************************************************************)
OneConn == {"c1"}

RoomsRegisters ==
    {RegisterMsg("p1", "worker", FALSE, k, None, None, None, None) :
        k \in {K1, new_api_key("R1")}}

HttpOps == {"create_room", "create_invite", "join_room", "create_token", "delete_room"}

NextRooms ==
    \/ \E ws \in OneConn : Accept(ws)
    \/ \E ws \in OneConn, m \in RoomsRegisters : Register(ws, m)
    \/ Drain
    \/ Tick
    \/ \E op \in HttpOps : Unauthorized(op, "jwtX")
    \/ \E jwt \in Callers : create_room_invite(jwt, "R1")
    \/ \E jwt \in Callers, code \in (DOMAIN ROOM_INVITES) \cup {"ZZZ"} : join_room(jwt, code)
    \/ \E jwt \in Callers : create_worker_token(jwt, "R1")
    \/ \E jwt \in Callers : delete_room(jwt, "R1")
    \/ delete_room_tokens
    \/ delete_room_record

SpecRooms == Init /\ [][NextRooms]_vars

(***************************************************************************)
(* SpecOwnership: a user creates a room, invites to it and deletes it.     *)
(***************************************************************************)
NextOwnership ==
    \/ Drain
    \/ Tick
    \/ \E jwt \in Callers : create_authenticated_room(jwt)
    \/ create_room_owner
    \/ \E jwt \in Callers : create_room_invite(jwt, "N0")
    \/ \E jwt \in Callers, code \in (DOMAIN ROOM_INVITES) \cup {"ZZZ"} : join_room(jwt, code)
    \/ \E jwt \in Callers : delete_room(jwt, "N0")
    \/ delete_room_tokens
    \/ delete_room_record

SpecOwnership == Init /\ [][NextOwnership]_vars

(***************************************************************************)
(* SpecHttp: two connections that register as clients or as a worker of    *)
(* room R1 and close, beside the HTTP endpoints that delete peers and      *)
(* report the metrics.                                                     *)
(***************************************************************************)
HttpRegisters == ClientRegisters \cup WorkerRegisters

NextHttp ==
    \/ \E ws \in TwoConns : Accept(ws)
    \/ \E ws \in TwoConns, m \in HttpRegisters : Register(ws, m)
    \/ Drain
    \/ \E ws \in TwoConns : ConnectionLost(ws)
    \/ \E ws \in TwoConns : Finally(ws)
    \/ \E peer_id \in PeerIds : delete_peer(peer_id)
    \/ \E x \in {<<"R1", None>>} \cup {<<None, p>> : p \in PeerIds},
          cognito_deleted \in SUBSET (UNION {DOMAIN ROOMS[r].peers : r \in DOMAIN ROOMS}) :
          delete_peer_and_room(x[1], x[2], cognito_deleted)
    \/ get_metrics
    \/ get_metrics_by_role

SpecHttp == Init /\ [][NextHttp]_vars

(***************************************************************************)
(* Properties.  In the state a handler leaves, last is the frame it was    *)
(* called for and sent the frames it wrote; an action formula compares     *)
(* that state with the one the handler started from.                       *)
(***************************************************************************)
Frames(out) == {out[i] : i \in 1..Len(out)}

TypeOf(f) == DictGet(f.msg, "type", None)

\* The (room_id, peer_id) pairs of the room maps.
Entries(rooms) == UNION {{<<r, p>> : p \in DOMAIN rooms[r].peers} : r \in DOMAIN rooms}

SocketOf(rooms, e) == rooms[e[1]].peers[e[2]].websocket

\* C1: a register naming a peer_id that is live in the target room, held by
\* another open connection, is not answered with a registration of that
\* identity, and the existing entry (socket, role, metadata, connected_at)
\* stays as it was.
C1_DuplicatePeerIdRejected ==
    [][last'.msg.type = "register" =>
        \A e \in Entries(ROOMS) :
            (/\ e[2] = last'.msg.peer_id
             /\ SocketOf(ROOMS, e) # last'.ws
             /\ conns[SocketOf(ROOMS, e)].state = "open") =>
                /\ e \in Entries(ROOMS')
                /\ ROOMS'[e[1]].peers[e[2]] = ROOMS[e[1]].peers[e[2]]
                /\ \A f \in Frames(sent') :
                      ~(/\ TypeOf(f) = "registered_auth"
                        /\ f.msg.room_id = e[1]
                        /\ f.msg.peer_id = e[2])]_vars

\* C2: once the WebSocket of a connection has closed and its handle_client
\* has finished, no room map holds an entry of that connection, and the
\* peer_id it registered (if no other connection registered the same one) is
\* not in PEER_TO_ROOM; on every credential path, a synthesized peer_id
\* included.
C2_ClosedPeerRemoved ==
    \A ws \in Conns :
        conns[ws].state = "done" =>
            /\ \A e \in Entries(ROOMS) : SocketOf(ROOMS, e) # ws
            /\ (/\ session[ws] # NoSession
                /\ \A c \in Conns \ {ws} : session[c].peer_id # session[ws].peer_id)
               => session[ws].peer_id \notin DOMAIN PEER_TO_ROOM

\* The OTP secrets of the stored rooms.
Secrets == {rooms_table[r].otp_secret : r \in DOMAIN rooms_table}

HasSecret(metadata) == DictGet(metadata, "_otp_secret", None) \in Secrets

\* A frame the server composes carries an OTP secret: in its otp_secret
\* field or in a peer's metadata.
CarriesSecret(msg) ==
    LET type == DictGet(msg, "type", None) IN
    \/ DictGet(msg, "otp_secret", None) \in Secrets
    \/ /\ type = "registered_auth"
       /\ \E pid \in DOMAIN msg.peer_metadata : HasSecret(msg.peer_metadata[pid])
    \/ type = "peer_list" /\ \E info \in msg.peers : HasSecret(info.metadata)
    \/ type = "metadata_updated" /\ HasSecret(msg.metadata)

\* C3: no frame that carries a room's OTP secret (registered_auth with its
\* peer_metadata, peer_list, metadata_updated) is written to a connection
\* that never registered with a valid worker API key.
C3_OtpSecretOnlyToWorkers ==
    \A f \in Frames(sent) : CarriesSecret(f.msg) => session[f.to].worker

\* The worker token a key refers to is revoked, or its expiry has passed.
RejectedKey(key) ==
    /\ key \in DOMAIN worker_tokens_table
    /\ \/ worker_tokens_table[key].revoked_at # NoTime
       \/ /\ worker_tokens_table[key].expires_at # NoTime
          /\ now > worker_tokens_table[key].expires_at

\* C4: a register whose api_key refers to a revoked or expired worker token
\* is answered with one error frame to the sender, and the registry, the
\* metrics and the binding of the connection are as before, whatever the
\* other fields of the message are.
C4_RejectedKeyRegisterRefused ==
    [][(last'.msg.type = "register" /\ RejectedKey(last'.msg.api_key)) =>
        /\ registry' = registry
        /\ METRICS' = METRICS
        /\ session' = session
        /\ Len(sent') = 1
        /\ sent'[1].to = last'.ws
        /\ TypeOf(sent'[1]) = "error"
        /\ sent'[1].msg.reason \in {"Token revoked", "Token expired"}]_vars

\* A register with a revoked or expired key, beside credentials that are
\* valid by themselves, has just been refused while a peer is registered.
C4_Witness ==
    /\ last.msg.type = "register"
    /\ RejectedKey(last.msg.api_key)
    /\ verify_sleap_jwt(last.msg.jwt) # Invalid
    /\ ROOMS # EmptyDict
    /\ TypeOf(sent[1]) = "error"

\* C5: a frame other than register on a connection that has not registered
\* changes nothing in the registry, writes nothing to another connection
\* and is answered with nothing but error frames.
C5_UnregisteredRejected ==
    [][(last'.msg.type \notin {None, "register"} /\ session[last'.ws] = NoSession) =>
        /\ registry' = registry
        /\ \A f \in Frames(sent') : f.to = last'.ws /\ TypeOf(f) = "error"]_vars

\* C6: a peer_message whose to_peer_id is registered in another room than
\* its from_peer_id is answered with the error PEER_NOT_IN_ROOM and nothing
\* is written to the target, for every payload.
C6_CrossRoomMessageRejected ==
    [][(/\ last'.msg.type = "peer_message"
        /\ last'.msg.from_peer_id \in DOMAIN PEER_TO_ROOM
        /\ last'.msg.to_peer_id \in DOMAIN PEER_TO_ROOM
        /\ PEER_TO_ROOM[last'.msg.from_peer_id] # PEER_TO_ROOM[last'.msg.to_peer_id]) =>
        sent' = CodeError(last'.ws, "PEER_NOT_IN_ROOM")]_vars

RelayTypes ==
    {"peer_message", "mesh_offer", "mesh_answer", "ice_candidate", "offer", "answer",
     "candidate"}

SenderOf(msg) ==
    IF "from_peer_id" \in DOMAIN msg THEN msg.from_peer_id ELSE DictGet(msg, "sender", None)

\* C7: a relayed frame is written to a target only if the connection it came
\* from is registered, under the sender id the frame names, in a room in
\* which the target connection is registered.
C7_RelayOnlyFromRegisteredSender ==
    \A f \in Frames(sent) :
        TypeOf(f) \in RelayTypes =>
            \E r \in DOMAIN ROOMS :
                /\ SenderOf(f.msg) \in DOMAIN ROOMS[r].peers
                /\ ROOMS[r].peers[SenderOf(f.msg)].websocket = last.ws
                /\ \E q \in DOMAIN ROOMS[r].peers : ROOMS[r].peers[q].websocket = f.to

\* The rooms in which a connection holds an entry.
RoomsOf(ws) == {e[1] : e \in {x \in Entries(ROOMS) : SocketOf(ROOMS, x) = ws}}

\* C8: a peer_list written to a registered connection is the answer for a
\* from_peer_id of a room that connection is registered in, and lists only
\* peers of such a room (for a from_peer_id that a single room holds).
C8_DiscoverOwnRoomOnly ==
    \A f \in Frames(sent) :
        (/\ TypeOf(f) = "peer_list"
         /\ RoomsOf(f.to) # {}
         /\ Cardinality({e \in Entries(ROOMS) : e[2] = f.msg.to_peer_id}) = 1) =>
            /\ DictGet(PEER_TO_ROOM, f.msg.to_peer_id, None) \in RoomsOf(f.to)
            /\ \A info \in f.msg.peers :
                  \E r \in RoomsOf(f.to) : info.peer_id \in DOMAIN ROOMS[r].peers

\* C9: an update_metadata leaves the metadata of every entry of another
\* connection as it was, and is not answered with metadata_updated for the
\* peer_id of such an entry.
C9_UpdateOwnMetadataOnly ==
    [][last'.msg.type = "update_metadata" =>
        \A e \in Entries(ROOMS) :
            SocketOf(ROOMS, e) # last'.ws =>
                /\ e \in Entries(ROOMS')
                /\ ROOMS'[e[1]].peers[e[2]].metadata = ROOMS[e[1]].peers[e[2]].metadata
                /\ PEER_TO_ROOM[e[2]] = e[1] =>
                      \A f \in Frames(sent') :
                          ~(TypeOf(f) = "metadata_updated" /\ f.msg.peer_id = e[2])]_vars

\* C10: a register with is_admin that authenticates into a room whose
\* admin is another live peer leaves ROOM_ADMINS as it was (one admin per
\* room, the one before), inserts the peer under the registering connection
\* and answers it with admin_conflict naming the current admin.
C10_AdminConflictKeepsAdmin ==
    [][(last'.msg.type = "register" /\ last'.msg.is_admin) =>
        LET a == Authenticate(last'.ws, last'.msg, uuid4_hex)
            cur == DictGet(ROOM_ADMINS, a.room_id, None)
        IN (/\ a.ok
            /\ cur # None
            /\ cur # a.peer_id
            /\ <<a.room_id, cur>> \in Entries(ROOMS)) =>
               /\ ROOM_ADMINS' = ROOM_ADMINS
               /\ <<a.room_id, a.peer_id>> \in Entries(ROOMS')
               /\ SocketOf(ROOMS', <<a.room_id, a.peer_id>>) = last'.ws
               /\ Frame(last'.ws, [type |-> "admin_conflict", room_id |-> a.room_id,
                                   current_admin |-> cur]) \in Frames(sent')]_vars

\* An admin_conflict has just been written for a room whose admin is a live
\* peer held by another connection.
C10_Witness ==
    /\ last.msg.type = "register"
    /\ \E f \in Frames(sent) :
          /\ TypeOf(f) = "admin_conflict"
          /\ ROOM_ADMINS[f.msg.room_id] = f.msg.current_admin
          /\ <<f.msg.room_id, f.msg.current_admin>> \in Entries(ROOMS)
          /\ SocketOf(ROOMS, <<f.msg.room_id, f.msg.current_admin>>) # last.ws

\* The entries of the room maps a connection holds.
Owned(rooms, ws) == {e \in Entries(rooms) : SocketOf(rooms, e) = ws}

\* C11: the admin of a room is never a peer whose connection has closed and
\* whose handle_client has finished: the designation is cleared with the
\* connection, so that the next register with is_admin takes it.
C11_AdminClearedOnClose ==
    \A r \in DOMAIN ROOM_ADMINS :
        /\ <<r, ROOM_ADMINS[r]>> \in Entries(ROOMS)
        /\ conns[SocketOf(ROOMS, <<r, ROOM_ADMINS[r]>>)].state # "done"

\* C12: a room is in ROOMS only while it has a peer whose connection has
\* not finished: no empty room entry, and no room entry that holds only
\* peers of finished connections.
C12_RoomLiveIffPeerLive ==
    \A r \in DOMAIN ROOMS :
        \E p \in DOMAIN ROOMS[r].peers : conns[ROOMS[r].peers[p].websocket].state # "done"

\* C13: a register on a connection that is already registered, successful
\* or not, leaves the set of entries that connection holds as it was.
C13_ConnectionBoundOnce ==
    [][(last'.msg.type = "register" /\ session[last'.ws] # NoSession) =>
        Owned(ROOMS', last'.ws) = Owned(ROOMS, last'.ws)]_vars

\* C14: a peer_id is in the peer map of at most one room.
C14_PeerInOneRoom ==
    \A e1 \in Entries(ROOMS), e2 \in Entries(ROOMS) : e1[2] = e2[2] => e1[1] = e2[1]

\* C15: when the handle_client of a closed connection finishes, the entries
\* that other connections hold, the admin designations of those entries and
\* their PEER_TO_ROOM lookups stay as they were.
C15_CleanupSparesNewRegistration ==
    [][\A ws \in Conns :
        (conns[ws].state = "closed" /\ conns'[ws].state = "done") =>
            \A e \in Entries(ROOMS) :
                SocketOf(ROOMS, e) # ws =>
                    /\ e \in Entries(ROOMS')
                    /\ ROOMS'[e[1]].peers[e[2]] = ROOMS[e[1]].peers[e[2]]
                    /\ DictGet(PEER_TO_ROOM, e[2], None) = e[1] =>
                          DictGet(PEER_TO_ROOM', e[2], None) = e[1]
                    /\ DictGet(ROOM_ADMINS, e[1], None) = e[2] =>
                          DictGet(ROOM_ADMINS', e[1], None) = e[2]]_vars

\* The connection that sent discover_peers holds the entry of from_peer_id
\* in the room PEER_TO_ROOM gives for it.
SentByRegistered(ws, msg) ==
    /\ msg.from_peer_id \in DOMAIN PEER_TO_ROOM
    /\ <<PEER_TO_ROOM[msg.from_peer_id], msg.from_peer_id>> \in Entries(ROOMS)
    /\ SocketOf(ROOMS, <<PEER_TO_ROOM[msg.from_peer_id], msg.from_peer_id>>) = ws

\* C16: discover_peers with empty filters, sent by the connection that holds
\* peer P in room R, is answered to that connection with one peer_list whose
\* peers are exactly the entries of R's peer map except P (peer_id, role,
\* metadata, connected_at of each) and whose count is their number.
C16_DiscoverAllReturnsRoom ==
    (/\ last.msg.type = "discover_peers"
     /\ last.msg.filters = EmptyDict
     /\ SentByRegistered(last.ws, last.msg)) =>
        LET P == last.msg.from_peer_id
            R == PEER_TO_ROOM[P]
            others == DOMAIN ROOMS[R].peers \ {P}
        IN /\ Len(sent) = 1
           /\ sent[1].to = last.ws
           /\ TypeOf(sent[1]) = "peer_list"
           /\ sent[1].msg.to_peer_id = P
           /\ sent[1].msg.peers = {PeerInfo(q, ROOMS[R].peers[q]) : q \in others}
           /\ {info.peer_id : info \in sent[1].msg.peers} = others
           /\ sent[1].msg.count = Cardinality(others)

\* A registered peer asked for everyone and its room holds another peer.
C16_Witness ==
    /\ last.msg.type = "discover_peers"
    /\ last.msg.filters = EmptyDict
    /\ SentByRegistered(last.ws, last.msg)
    /\ \E f \in Frames(sent) : TypeOf(f) = "peer_list" /\ f.msg.count = 1

\* A property clause as declared: the peer has the property, and it equals
\* a scalar filter value or satisfies every operator of an operator document.
Satisfies(peer_value, value) ==
    /\ peer_value # NoValue
    /\ IF value.t = "dict"
       THEN /\ "$gte" \in DOMAIN value.ops => ~Less(peer_value, value.ops["$gte"])
            /\ "$lte" \in DOMAIN value.ops => ~Less(value.ops["$lte"], peer_value)
            /\ "$eq" \in DOMAIN value.ops => peer_value = value.ops["$eq"]
       ELSE peer_value = value

\* Every clause a filter declares holds for a peer.
Declared(peer_data, filters) ==
    /\ "role" \in DOMAIN filters => peer_data.role = filters.role
    /\ "tags" \in DOMAIN filters =>
          DictGet(peer_data.metadata, "tags", {}) \cap filters.tags # {}
    /\ "properties" \in DOMAIN filters =>
          \A key \in DOMAIN filters.properties :
              Satisfies(DictGet(DictGet(peer_data.metadata, "properties", EmptyDict),
                                key, NoValue),
                        filters.properties[key])

\* C17: a peer_list that answers discover_peers holds a peer of the room
\* (other than the requester) if and only if every clause the filter declares
\* holds for it: role equal, a tag in common, every property present and
\* equal to the scalar or within the $gte/$lte/$eq operators.
C17_FilterSemantics ==
    \A f \in Frames(sent) :
        (last.msg.type = "discover_peers" /\ TypeOf(f) = "peer_list") =>
            LET room == ROOMS[PEER_TO_ROOM[last.msg.from_peer_id]] IN
            \A q \in DOMAIN room.peers \ {last.msg.from_peer_id} :
                (\E info \in f.msg.peers : info.peer_id = q)
                    <=> Declared(room.peers[q], last.msg.filters)

TagsOf(metadata) == DictGet(metadata, "tags", {})

PropertiesOf(metadata) == DictGet(metadata, "properties", EmptyDict)

\* C18: after an update_metadata answered with metadata_updated, the stored
\* metadata of the peer has the union of the stored and the sent tags, and
\* the stored properties overridden by the sent ones; tags stay as they
\* were when only properties are sent, and properties when only tags are.
C18_MetadataMerge ==
    [][(/\ last'.msg.type = "update_metadata"
        /\ \E f \in Frames(sent') : TypeOf(f) = "metadata_updated") =>
        LET peer_id == last'.msg.peer_id
            room_id == PEER_TO_ROOM[peer_id]
            M == ROOMS[room_id].peers[peer_id].metadata
            U == last'.msg.metadata
            stored == ROOMS'[room_id].peers[peer_id].metadata
        IN /\ TagsOf(stored) = TagsOf(M) \cup TagsOf(U)
           /\ DOMAIN PropertiesOf(stored) =
                  (DOMAIN PropertiesOf(M)) \cup (DOMAIN PropertiesOf(U))
           /\ \A k \in DOMAIN PropertiesOf(stored) :
                  PropertiesOf(stored)[k] =
                      IF k \in DOMAIN PropertiesOf(U) THEN PropertiesOf(U)[k]
                      ELSE PropertiesOf(M)[k]]_vars

\* The peers of a room, other than the requester, whose stored property key
\* has the value.
HoldingValue(rooms, room_id, from_peer_id, key, value) ==
    {q \in DOMAIN rooms[room_id].peers \ {from_peer_id} :
        DictGet(PropertiesOf(rooms[room_id].peers[q].metadata), key, NoValue) = value}

\* C19: an update_metadata answered with metadata_updated stores the document
\* of the answer, in which every property sent has the value sent; and a
\* discover_peers with a filter on one number-valued property returns the
\* peers of the room whose stored property has that value at the time of the
\* request, so a peer whose property was overwritten is returned for the new
\* value and not for the old one.
C19_DiscoverSeesUpdate ==
    [][/\ (/\ last'.msg.type = "update_metadata"
           /\ \E f \in Frames(sent') : TypeOf(f) = "metadata_updated") =>
            LET peer_id == last'.msg.peer_id
                stored == ROOMS'[PEER_TO_ROOM[peer_id]].peers[peer_id].metadata
            IN /\ \A f \in Frames(sent') : f.msg.metadata = stored
               /\ \A k \in DOMAIN PropertiesOf(last'.msg.metadata) :
                     PropertiesOf(stored)[k] = last'.msg.metadata.properties[k]
       /\ (/\ last'.msg.type = "discover_peers"
           /\ DOMAIN last'.msg.filters = {"properties"}
           /\ \A k \in DOMAIN last'.msg.filters.properties :
                 last'.msg.filters.properties[k].t = "num"
           /\ \E f \in Frames(sent') : TypeOf(f) = "peer_list") =>
            \A f \in Frames(sent'), k \in DOMAIN last'.msg.filters.properties :
                {info.peer_id : info \in f.msg.peers} =
                    HoldingValue(ROOMS, PEER_TO_ROOM[last'.msg.from_peer_id],
                                 last'.msg.from_peer_id, k,
                                 last'.msg.filters.properties[k])]_vars

\* A peer registered with gpu_memory 8 is found with a filter on 16: its
\* property was overwritten by an update.
C19_Witness ==
    /\ last.msg.type = "discover_peers"
    /\ last.msg.filters = [properties |-> [gpu_memory |-> Num(16)]]
    /\ \E f \in Frames(sent) :
          /\ TypeOf(f) = "peer_list"
          /\ \E info \in f.msg.peers :
                PropertiesOf(info.metadata).gpu_memory = Num(16)

\* C20: a frame the dispatcher handles (any type but register), whatever it
\* is answered with, leaves the sender's connection as it was and the
\* entries the sender holds, with their PEER_TO_ROOM lookups, in the registry.
C20_ErrorKeepsSender ==
    [][last'.msg.type \notin {None, "register"} =>
        /\ conns'[last'.ws] = conns[last'.ws]
        /\ \A e \in Owned(ROOMS, last'.ws) :
              /\ e \in Owned(ROOMS', last'.ws)
              /\ DictGet(PEER_TO_ROOM', e[2], None) = DictGet(PEER_TO_ROOM, e[2], None)]_vars

\* An error frame: {"type": "error", ...}, or the {"error": ...} of the
\* legacy path.
IsError(f) == TypeOf(f) = "error" \/ "error" \in DOMAIN f.msg

ByApiKey(msg) == msg.api_key # NoKey /\ startswith(msg.api_key, "slp_")

\* The room whose record a register is validated against: the room of the
\* worker token on the API key path, the room_id of the message otherwise.
RoomAsked(msg) ==
    IF ByApiKey(msg)
    THEN IF msg.api_key \in DOMAIN worker_tokens_table
         THEN worker_tokens_table[msg.api_key].room_id
         ELSE None
    ELSE msg.room_id

RoomExpired(room_id) ==
    room_id \in DOMAIN rooms_table /\ now > rooms_table[room_id].expires_at

\* C22: a register whose room record has expires_at in the past is answered
\* with an error and nothing else, on the API key, session token and legacy
\* path, and ROOMS, PEER_TO_ROOM and ROOM_ADMINS stay as they were.
C22_ExpiredRoomRefused ==
    [][(last'.msg.type = "register" /\ RoomExpired(RoomAsked(last'.msg))) =>
        /\ registry' = registry
        /\ Len(sent') = 1
        /\ IsError(sent'[1])]_vars

\* A worker with a valid key of an expired room has just been refused.
C22_Witness ==
    /\ last.msg.type = "register"
    /\ last.msg.api_key = K2
    /\ RoomExpired(RoomAsked(last.msg))
    /\ \E f \in Frames(sent) : DictGet(f.msg, "reason", None) = "Room expired"

\* C23: a register on the API key path that is answered with
\* registered_auth names the room of the worker token in the answer, puts
\* the peer into that room under the sender's socket and points PEER_TO_ROOM
\* at it; every other room stays as it was, whatever room_id the message has.
C23_WorkerRoomFromToken ==
    [][(last'.msg.type = "register" /\ ByApiKey(last'.msg)) =>
        \A f \in Frames(sent') :
            TypeOf(f) = "registered_auth" =>
                LET room_id == worker_tokens_table[last'.msg.api_key].room_id IN
                /\ f.msg.room_id = room_id
                /\ <<room_id, f.msg.peer_id>> \in Owned(ROOMS', last'.ws)
                /\ PEER_TO_ROOM'[f.msg.peer_id] = room_id
                /\ \A r \in DOMAIN ROOMS' \ {room_id} :
                      r \in DOMAIN ROOMS /\ ROOMS'[r] = ROOMS[r]]_vars

\* A worker that asked for room R2 with the key of R1 has been registered.
C23_Witness ==
    /\ last.msg.type = "register"
    /\ last.msg.api_key = K1
    /\ last.msg.room_id = "R2"
    /\ \E f \in Frames(sent) : TypeOf(f) = "registered_auth" /\ f.msg.room_id = "R1"
    /\ "R2" \in DOMAIN ROOMS

\* The register takes the session token path (server.py:1057).
ByJwt(msg) == ~ByApiKey(msg) /\ msg.jwt # None

\* A membership row exists for the user of the session token and the room
\* the message asks for.
IsMember(msg) ==
    /\ verify_sleap_jwt(msg.jwt) # Invalid
    /\ <<verify_sleap_jwt(msg.jwt).sub, msg.room_id>> \in DOMAIN room_memberships_table

\* C24: a register on the session token path is answered with
\* registered_auth only if room_memberships_table has a row for the token's
\* user and the room_id of the message; without the row ROOMS, PEER_TO_ROOM
\* and ROOM_ADMINS stay as they were.
C24_JwtNeedsMembership ==
    [][(last'.msg.type = "register" /\ ByJwt(last'.msg) /\ ~IsMember(last'.msg)) =>
        /\ registry' = registry
        /\ \A f \in Frames(sent') : TypeOf(f) # "registered_auth"]_vars

\* A user with a valid session token and no membership of the room asked
\* for has just been refused, while a peer is registered.
C24_Witness ==
    /\ last.msg.type = "register"
    /\ ByJwt(last.msg)
    /\ verify_sleap_jwt(last.msg.jwt) # Invalid
    /\ last.msg.room_id \in DOMAIN rooms_table
    /\ ~IsMember(last.msg)
    /\ ROOMS # EmptyDict
    /\ \E f \in Frames(sent) : IsError(f)

\* C25: a registered_auth that answers a register on the API key path
\* carries the OTP secret of the room, whatever the role of the message.
C25_WorkerKeyGetsOtpSecret ==
    \A f \in Frames(sent) :
        (last.msg.type = "register" /\ ByApiKey(last.msg)
         /\ TypeOf(f) = "registered_auth") =>
            DictGet(f.msg, "otp_secret", None) = rooms_table[f.msg.room_id].otp_secret

\* The rooms in which two peer ids are both registered, the second with an
\* open socket.
SharedRooms(from_peer_id, to_peer_id) ==
    {r \in DOMAIN ROOMS :
        /\ from_peer_id \in DOMAIN ROOMS[r].peers
        /\ to_peer_id \in DOMAIN ROOMS[r].peers
        /\ conns[ROOMS[r].peers[to_peer_id].websocket].state = "open"}

\* C26: a peer_message between two peers registered in the same room, the
\* target's socket open, writes one frame, to the target's socket, of type
\* peer_message with the from_peer_id, to_peer_id and payload of the message,
\* and total_messages grows by one.
C26_PeerMessageDelivered ==
    [][last'.msg.type = "peer_message" =>
        \A r \in SharedRooms(last'.msg.from_peer_id, last'.msg.to_peer_id) :
            /\ sent' = <<Frame(ROOMS[r].peers[last'.msg.to_peer_id].websocket,
                               [type |-> "peer_message",
                                from_peer_id |-> last'.msg.from_peer_id,
                                to_peer_id |-> last'.msg.to_peer_id,
                                payload |-> last'.msg.payload])>>
            /\ METRICS'.total_messages = METRICS.total_messages + 1]_vars

MeshTypes == {"mesh_connect", "mesh_answer", "ice_candidate"}

\* C27: every frame a mesh_connect, mesh_answer or ice_candidate makes the
\* server write, other than an error to the sender, goes to the socket of
\* the target in the sender's room and is exactly {type, from_peer_id,
\* offer | answer | candidate}: type mesh_offer, mesh_answer or
\* ice_candidate, the from_peer_id of the message and its payload value.
C27_MeshRelayedUnchanged ==
    \A f \in Frames(sent) :
        (last.msg.type \in MeshTypes /\ ~IsError(f)) =>
            /\ f.to = ROOMS[PEER_TO_ROOM[last.msg.from_peer_id]]
                        .peers[last.msg.target_peer_id].websocket
            /\ f.msg =
                 IF last.msg.type = "mesh_connect"
                 THEN [type |-> "mesh_offer", from_peer_id |-> last.msg.from_peer_id,
                       offer |-> last.msg.offer]
                 ELSE IF last.msg.type = "mesh_answer"
                 THEN [type |-> "mesh_answer", from_peer_id |-> last.msg.from_peer_id,
                       answer |-> last.msg.answer]
                 ELSE [type |-> "ice_candidate", from_peer_id |-> last.msg.from_peer_id,
                       candidate |-> last.msg.candidate]

\* An offer has just been relayed from one connection to another.
C27_Witness ==
    /\ last.msg.type = "mesh_connect"
    /\ \E f \in Frames(sent) :
          /\ TypeOf(f) = "mesh_offer"
          /\ f.to # last.ws
          /\ f.msg.offer = last.msg.offer

\* The sender id, target id and payload of a relay frame.
RelayFrom(msg) == msg.from_peer_id

RelayTarget(msg) == IF msg.type = "peer_message" THEN msg.to_peer_id ELSE msg.target_peer_id

RelayPayload(msg) ==
    IF msg.type = "peer_message" THEN msg.payload ELSE msg[MeshField(msg.type)]

\* The handler of a relay frame finds the target in the sender's room: the
\* frame has its fields, PEER_TO_ROOM names a live room for the sender and
\* the target is in the peer map of that room (for peer_message, with
\* PEER_TO_ROOM naming the same room for the target).
TargetFound(msg) ==
    /\ RelayFrom(msg) # None /\ RelayTarget(msg) # None /\ RelayPayload(msg) # EmptyDict
    /\ RelayFrom(msg) \in DOMAIN PEER_TO_ROOM
    /\ PEER_TO_ROOM[RelayFrom(msg)] \in DOMAIN ROOMS
    /\ RelayTarget(msg) \in DOMAIN ROOMS[PEER_TO_ROOM[RelayFrom(msg)]].peers
    /\ msg.type = "peer_message" =>
          DictGet(PEER_TO_ROOM, RelayTarget(msg), None) = PEER_TO_ROOM[RelayFrom(msg)]

TargetSocket(msg) == ROOMS[PEER_TO_ROOM[RelayFrom(msg)]].peers[RelayTarget(msg)].websocket

\* C28: a peer_message, mesh_connect or mesh_answer whose target is found in
\* the sender's room on a socket that has closed is answered to the sender
\* with the one frame error DELIVERY_FAILED; total_messages, the registry
\* and every connection stay as they were.
C28_DeliveryFailedReported ==
    [][(/\ last'.msg.type \in {"peer_message", "mesh_connect", "mesh_answer"}
        /\ TargetFound(last'.msg)
        /\ conns[TargetSocket(last'.msg)].state # "open") =>
        /\ Len(sent') = 1
        /\ sent'[1].to = last'.ws
        /\ TypeOf(sent'[1]) = "error"
        /\ sent'[1].msg.code = "DELIVERY_FAILED"
        /\ METRICS'.total_messages = METRICS.total_messages
        /\ registry' = registry
        /\ conns' = conns]_vars

\* An offer for a peer whose socket has closed has just been answered with
\* DELIVERY_FAILED, and the sender holds an entry of the registry.
C28_Witness ==
    /\ last.msg.type = "mesh_connect"
    /\ \E f \in Frames(sent) : TypeOf(f) = "error" /\ f.msg.code = "DELIVERY_FAILED"
    /\ Owned(ROOMS, last.ws) # {}
    /\ conns[last.ws].state = "open"

\* The sender of a mesh frame is in a live room whose peer map does not hold
\* the target.
TargetMissing(msg) ==
    /\ RelayFrom(msg) # None /\ RelayTarget(msg) # None /\ RelayPayload(msg) # EmptyDict
    /\ RelayFrom(msg) \in DOMAIN PEER_TO_ROOM
    /\ PEER_TO_ROOM[RelayFrom(msg)] \in DOMAIN ROOMS
    /\ RelayTarget(msg) \notin DOMAIN ROOMS[PEER_TO_ROOM[RelayFrom(msg)]].peers

\* C29: a mesh frame whose target is not in the peer map of the sender's
\* room leaves the registry and the metrics as they were; for ice_candidate
\* nothing is written to anyone, for mesh_connect and mesh_answer the one
\* frame written is error PEER_NOT_FOUND to the sender.
C29_MissingMeshTarget ==
    [][(last'.msg.type \in MeshTypes /\ TargetMissing(last'.msg)) =>
        /\ registry' = registry
        /\ METRICS' = METRICS
        /\ conns' = conns
        /\ IF last'.msg.type = "ice_candidate"
           THEN sent' = <<>>
           ELSE /\ Len(sent') = 1
                /\ sent'[1].to = last'.ws
                /\ TypeOf(sent'[1]) = "error"
                /\ sent'[1].msg.code = "PEER_NOT_FOUND"]_vars

\* A candidate for a peer that is not in the sender's room has just been
\* dropped without an answer.
C29_Witness ==
    /\ last.msg.type = "ice_candidate"
    /\ TargetMissing(last.msg)
    /\ Owned(ROOMS, last.ws) # {}
    /\ sent = <<>>

\* The frames a handler of connection ws relayed to socket t for peer g: the
\* positions in wire[t].
RelayedTo(t, ws, g) ==
    {i \in DOMAIN wire[t] :
        /\ wire[t][i].by = ws
        /\ wire[t][i].msg.type # "error"
        /\ RelayTarget(read_log[ws][wire[t][i].n]) = g}

\* C30: the relay frames one sender connection sends to one target peer are
\* on the target's socket in the order in which handle_client read them from
\* the sender: of two such frames the one written first was read first, and
\* each carries the payload of the frame it was read as.
C30_RelayOrderPreserved ==
    \A t \in Conns, ws \in Conns, g \in PeerIds :
        \A i, j \in RelayedTo(t, ws, g) :
            /\ i < j => wire[t][i].n < wire[t][j].n
            /\ RelayPayload(wire[t][i].msg) = RelayPayload(read_log[ws][wire[t][i].n])

C30_Witness ==
    \E t \in Conns, ws \in Conns, g \in PeerIds :
        /\ Cardinality(RelayedTo(t, ws, g)) >= 2
        /\ t # ws

IsOwner(user_id, room_id) ==
    /\ <<user_id, room_id>> \in DOMAIN room_memberships_table
    /\ room_memberships_table[<<user_id, room_id>>].role = "owner"

\* The HTTP request that was just answered.
Answered(op) == http_response.op = op

\* C31: DELETE /api/auth/rooms/{room_id} goes ahead only for a caller whose
\* membership of the room has role owner and is refused for no such caller;
\* when it answers 200 no RoomMembership row and no WorkerToken row of the
\* room is left and the Room record is gone; when it refuses (a plain member,
\* not a member) the store, the invites and the registry are unchanged.
C31_DeleteRoomOwnerOnly ==
    [][/\ (http_task.op = None /\ http_task'.op = "delete_room")
              => IsOwner(http_task'.user_id, http_task'.room_id)
       /\ (http_response = NoResponse /\ http_response'.op = "delete_room")
              => IF http_response'.status = 200
                 THEN LET room_id == http_response'.room_id IN
                      /\ http_task.op = "delete_room"
                      /\ room_id \notin DOMAIN rooms_table'
                      /\ \A k \in DOMAIN room_memberships_table' : k[2] # room_id
                      /\ \A k \in DOMAIN worker_tokens_table' :
                             worker_tokens_table'[k].room_id # room_id
                 ELSE /\ ~IsOwner(http_response'.user_id, http_response'.room_id)
                      /\ http_response'.status \in {401, 403, 404}
                      /\ UNCHANGED <<tables, ROOM_INVITES, registry, http_task>>]_vars

C31_Witness ==
    /\ Answered("delete_room")
    /\ http_response.status = 200
    /\ http_response.room_id = "R1"
    /\ \E c \in Conns : session[c].worker

\* The room a worker API key was issued for: that of its row in the initial
\* store, or the room create_worker_token made it for.
IssuedFor(key) ==
    IF key \in DOMAIN InitWorkerTokens THEN InitWorkerTokens[key].room_id ELSE key[2]

\* C32: once an owner's deletion of a room has succeeded, a register with a
\* worker API key that was issued for that room is answered with an error
\* and leaves the registry as it was.
C32_DeletedRoomKeyRefused ==
    [][(/\ last = NoEvent
        /\ last'.msg.type = "register"
        /\ ByApiKey(last'.msg)
        /\ IssuedFor(last'.msg.api_key) \in deleted_rooms)
           => /\ sent' # <<>>
              /\ \A i \in DOMAIN sent' : IsError(sent'[i])
              /\ UNCHANGED registry]_vars

C32_Witness ==
    /\ last.msg.type = "register"
    /\ ByApiKey(last.msg)
    /\ IssuedFor(last.msg.api_key) \in deleted_rooms
    /\ last.msg.api_key \in DOMAIN worker_tokens_table

\* C33: a redemption of a valid invite code by a user who has no membership
\* of the room adds exactly one row, of that user and room with role member,
\* and changes no other row; a redemption by a user who has a membership of
\* the room (the owner included) leaves room_memberships_table unchanged.
\* Either way the user has a membership afterwards, so a second redemption
\* changes nothing.
C33_JoinIdempotent ==
    [][(/\ http_response = NoResponse
        /\ http_response'.op = "join_room"
        /\ http_response'.status = 200)
           => LET key == <<http_response'.user_id, http_response'.room_id>> IN
              /\ key \in DOMAIN room_memberships_table'
              /\ IF key \in DOMAIN room_memberships_table
                 THEN room_memberships_table' = room_memberships_table
                 ELSE /\ DOMAIN room_memberships_table' =
                             (DOMAIN room_memberships_table) \cup {key}
                      /\ room_memberships_table'[key].role = "member"
                      /\ \A k \in DOMAIN room_memberships_table :
                             room_memberships_table'[k] = room_memberships_table[k]]_vars

C33_Witness ==
    /\ Answered("join_room")
    /\ http_response.status = 200
    /\ IsOwner(http_response.user_id, http_response.room_id)
    /\ <<"userC", http_response.room_id>> \in DOMAIN room_memberships_table

\* The users whose membership of the room has role owner.
Owners(room_id) == {u \in Users : IsOwner(u, room_id)}

\* C34: a room that POST /api/auth/rooms has created has, for as long as
\* its Room record exists, exactly one membership with role owner, that of
\* its creator; also while a deletion of the room is in progress.
C34_OneOwnerWhileRecorded ==
    \A room_id \in DOMAIN rooms_table :
        (room_id \notin DOMAIN InitRooms
         /\ ~(http_task.op = "create_room" /\ http_task.room_id = room_id))
            => Owners(room_id) = {rooms_table[room_id].created_by}

\* C35: an owner-only endpoint (room deletion, invite creation) answers a
\* caller who has no membership of the room with 404, and neither an invite
\* nor a deletion results.
C35_NonMemberNotFound ==
    (/\ http_response.op \in {"create_invite", "delete_room"}
     /\ http_response.user_id # None
     /\ http_response.status # 200
     /\ <<http_response.user_id, http_response.room_id>> \notin DOMAIN room_memberships_table)
        => /\ http_response.status = 404
           /\ http_task = NoTask
           /\ \A code \in DOMAIN ROOM_INVITES :
                  ROOM_INVITES[code].created_by # http_response.user_id

\* C40: every RoomMembership row is of a room whose Room record exists; no
\* membership of a room is created once its deletion has succeeded, whatever
\* invite codes were issued before.
C40_MembershipOfExistingRoom ==
    \A k \in DOMAIN room_memberships_table :
        /\ k[2] \in DOMAIN rooms_table
        /\ k[2] \notin deleted_rooms

\* The sum of the counts of a peers_by_role document.
TotalByRole(counts) ==
    LET RECURSIVE Sum(_)
        Sum(S) == IF S = {} THEN 0
                  ELSE LET r == CHOOSE r \in S : TRUE
                       IN counts[r] + Sum(S \ {r})
    IN Sum(DOMAIN counts)

\* C36: a response of GET /metrics is a snapshot of one registry state
\* although WebSocket handlers register and clean up peers meanwhile: its
\* active_connections is the sum of its peers_by_role counts.
C36_MetricsSnapshot ==
    Answered("get_metrics")
        => http_response.active_connections = TotalByRole(http_response.peers_by_role)

\* C37: when a connection that never registered successfully closes, the
\* cleanup of handle_client leaves ROOMS, PEER_TO_ROOM and ROOM_ADMINS as
\* they were, whatever peer_id its refused register frames named.
C37_UnregisteredCloseChangesNothing ==
    [][\A ws \in Conns :
          (/\ conns[ws].state = "closed"
           /\ conns'[ws].state = "done"
           /\ session[ws] = NoSession)
              => UNCHANGED registry]_vars

\* C38: the two indexes of the registry agree: PEER_TO_ROOM sends peer p to
\* room r exactly if p is a key of the peer map of r, and every room that
\* PEER_TO_ROOM names is in ROOMS.
C38_IndexesAgree ==
    /\ \A p \in DOMAIN PEER_TO_ROOM :
          /\ PEER_TO_ROOM[p] \in DOMAIN ROOMS
          /\ p \in DOMAIN ROOMS[PEER_TO_ROOM[p]].peers
    /\ \A r \in DOMAIN ROOMS : \A p \in DOMAIN ROOMS[r].peers :
          DictGet(PEER_TO_ROOM, p, None) = r

\* C39: an admin designation is of a room that is in ROOMS and names a peer
\* that is in the peer map of that room.
C39_AdminIsLivePeer ==
    \A r \in DOMAIN ROOM_ADMINS :
        /\ r \in DOMAIN ROOMS
        /\ ROOM_ADMINS[r] \in DOMAIN ROOMS[r].peers

====
